---- MODULE Spec2Model ----
(***************************************************************************)
(* A model of the ATC semantic parsing pipeline of                         *)
(* src/ATC_parsing/semantic_parsing.py: parsing() and the helpers nested   *)
(* in it (command_normalization, text2placeholders,                        *)
(* replace_unknown_phrases, LF2placeholders, parse_segment, clean_LF,      *)
(* parse_command).                                                         *)
(*                                                                         *)
(* Strings are modelled as sequences of tokens.  A token is a record       *)
(* [k, v, n]:                                                              *)
(*   k = "w"   a raw word, v its text                                      *)
(*   k = "ph"  a placeholder, v the lowercase category, n its index        *)
(*   k = "X"   an unknown slot Xn                                          *)
(*   k = "ctx" the stream token _context_                                  *)
(*   k = "H"   a function head _V_( written in upper case (a category)     *)
(*   k = "h"   a function head _v_( written in lower case (a keyword)      *)
(*   k = "(" , ")" , "," , "*" , ";"   the punctuation of a logical form   *)
(*   k = "bad" a placeholder whose text was damaged (no lexicon word)      *)
(* The regular expressions of the source are translated one by one into    *)
(* operators over such sequences.                                          *)
(***************************************************************************)
EXTENDS Integers, Sequences, FiniteSets, TLC

(***************************************************************************)
(* Bounds of the model.                                                    *)
(***************************************************************************)
MaxLen == 3        \* utterances over CoreWords have at most MaxLen words
MaxRepeat == 9     \* longest run of one repeated word in an utterance
MaxSteps == 3      \* number_of_steps ranges over 1..MaxSteps
MaxFileLines == 3  \* lines added to the standard regex.txt
MaxRounds == 6     \* rounds of the while loop of text2placeholders that are followed

(***************************************************************************)
(* Tokens.                                                                 *)
(***************************************************************************)
W(v) == [k |-> "w", v |-> v, n |-> 0]
PH(c, i) == [k |-> "ph", v |-> c, n |-> i]
XT(i) == [k |-> "X", v |-> "x", n |-> i]
CTX == [k |-> "ctx", v |-> "context", n |-> 0]
HU(c) == [k |-> "H", v |-> c, n |-> 0]
HL(c) == [k |-> "h", v |-> c, n |-> 0]
Sym(s) == [k |-> s, v |-> "", n |-> 0]
LP == Sym("(")
RP == Sym(")")
COMMA == Sym(",")
STAR == Sym("*")
SEMI == Sym(";")

IsHead(t) == t.k \in {"H", "h"}

(***************************************************************************)
(* The resources.  The data files are not part of the sources; the tables  *)
(* below are the tables make_lexicon builds for a small regex.txt,         *)
(* prepositions.txt, category_filters.txt and lexicon_complex.txt in the   *)
(* style of the examples of the docstrings.                                *)
(***************************************************************************)

\* dData['regex_category'] with dData['regex_complexity'], in file order.
\* hits: the lowercased words the (case-insensitive) pattern matches.
\* complexity: len(clean_regex.split('\\')).
RegexTable ==
  << [regex |-> "\\broger\\b",        category |-> "acknowledge", complexity |-> 3, hits |-> {"roger"}],
     [regex |-> "\\bsouthwest\\b",    category |-> "aircraft",    complexity |-> 3, hits |-> {"southwest"}],
     [regex |-> "\\bn\\d+[a-z]*\\b",  category |-> "callsign",    complexity |-> 4, hits |-> {"n578"}],
     [regex |-> "\\b\\d+\\b",         category |-> "intnumber",   complexity |-> 4, hits |-> {"5"}],
     [regex |-> "\\buh\\b",           category |-> "context",     complexity |-> 3, hits |-> {"uh"}] >>

\* dData['category_frequency']: the categories that own a pattern.
Categories == {RegexTable[i].category : i \in DOMAIN RegexTable}

\* dData['placeholder_number']: the cap of a category, 5 by default.
placeholder_number(c) == CASE c = "intnumber" -> 9 [] c = "runway" -> 6 [] OTHER -> 5

\* dData['placeholder_category']: the placeholders of the lexicon.
IsLexPlaceholder(t) ==
  t.k = "ph" /\ t.v \in Categories /\ t.n >= 1 /\ t.n <= placeholder_number(t.v)

\* dData['prepositions'].
prepositions == {"the"}

\* dData['category_filter'].
category_filter == {"acknowledge"}

\* The X1..X12 rules of lex_last_part.
NumUnknownSlots == 12

(***************************************************************************)
(* Properties of the words of the vocabulary that the code reads.          *)
(***************************************************************************)
\* str.lower()
Lower(v) == CASE v = "Southwest" -> "southwest"
              [] v = "Plugh" -> "plugh"
              [] v = "\\bRoger\\b" -> "\\broger\\b"
              [] v = "ACKNOWLEDGE" -> "acknowledge"
              [] v = "AIRCRAFT" -> "aircraft"
              [] v = "CALLSIGN" -> "callsign"
              [] v = "INTNUMBER" -> "intnumber"
              [] v = "CONTEXT" -> "context"
              [] v = "RUNWAY" -> "runway"
              [] v = "NAVAID" -> "navaid"
              [] v = "The" -> "the"
              [] OTHER -> v

\* str.upper()
Upper(v) == CASE v = "context" -> "CONTEXT"
              [] v = "Acknowledge" -> "ACKNOWLEDGE"
              [] OTHER -> v

\* len()
WordLen(v) == CASE v \in {"roger", "plugh", "xyzzy"} -> 5
                [] v = "n578" -> 4
                [] v \in {"acknowledge", "plugh-xyzzy"} -> 11
                [] v \in {"aircraft", "callsign"} -> 8
                [] v \in {"context", "a-plugh"} -> 7
                [] v \in {"the"} -> 3
                [] v \in {"uh", "no", "x5"} -> 2
                [] v \in {"5", "(", "a"} -> 1
                [] OTHER -> 9

\* str.isalpha()
IsAlpha(v) == v \in {"roger", "southwest", "plugh", "xyzzy", "the", "uh", "no", "a"}

\* re.compile(v) raises re.error: the word is no regular expression.
BadRegex(v) == v = "("

\* the word matches \b(x)\d+\b (re.I) and is one of the words x1..x12
XWordIndex(v) == IF v = "x5" THEN 5 ELSE 0

(***************************************************************************)
(* Helpers on sequences.                                                   *)
(***************************************************************************)
Max(a, b) == IF a >= b THEN a ELSE b
Min(a, b) == IF a <= b THEN a ELSE b

\* the least member of a set of positions, 0 for the empty set
Least(S) == IF S = {} THEN 0 ELSE CHOOSE x \in S : \A y \in S : x <= y

\* the sequence s with t at position p
SetAt(s, p, t) == SubSeq(s, 1, p - 1) \o <<t>> \o SubSeq(s, p + 1, Len(s))

\* s[a..b], empty when a > b
Slice(s, a, b) == IF a > b THEN << >> ELSE SubSeq(s, a, b)

\* the least position p >= from with pat = s[p..p+Len(pat)-1], or 0
RECURSIVE FindSub(_, _, _)
FindSub(s, pat, from) ==
  IF from + Len(pat) - 1 > Len(s) THEN 0
  ELSE IF SubSeq(s, from, from + Len(pat) - 1) = pat THEN from
  ELSE FindSub(s, pat, from + 1)

\* str.replace(pat, rep): every occurrence, left to right, not overlapping
RECURSIVE ReplaceAll(_, _, _)
ReplaceAll(s, pat, rep) ==
  LET p == FindSub(s, pat, 1)
  IN IF pat = << >> \/ p = 0 THEN s
     ELSE Slice(s, 1, p - 1) \o rep \o ReplaceAll(Slice(s, p + Len(pat), Len(s)), pat, rep)

\* re.sub(pat, rep, s, count=1) for a pattern that is a token sequence
ReplaceFirst(s, pat, rep) ==
  LET p == FindSub(s, pat, 1)
  IN IF pat = << >> \/ p = 0 THEN s
     ELSE Slice(s, 1, p - 1) \o rep \o Slice(s, p + Len(pat), Len(s))

\* An insertion-ordered dict: a sequence of [key, val]; d[key] = val
DictHas(d, key) == \E j \in DOMAIN d : d[j].key = key
DictGet(d, key) == d[CHOOSE j \in DOMAIN d : d[j].key = key].val
DictPut(d, key, val) ==
  IF DictHas(d, key)
  THEN [j \in DOMAIN d |-> IF d[j].key = key THEN [key |-> key, val |-> val] ELSE d[j]]
  ELSE Append(d, [key |-> key, val |-> val])

(***************************************************************************)
(* make_lexicon, as far as read_regex goes.  regex.txt is a sequence of    *)
(* lines: a line '#NAME' opens a category, any other line is a pattern     *)
(* r"..." (text: what is left of it after .strip(' \n'), .replace('r"','')  *)
(* and .replace('"','')), '' for a blank line.                              *)
(***************************************************************************)
CategoryLine(name) == [head |-> TRUE, text |-> name]
PatternLine(regex) == [head |-> FALSE, text |-> regex]

\* for record in lines: the header sets category, a pattern line does
\* dRegexCategory[regex] = category unless regex == ''
RECURSIVE ReadLines(_, _, _, _)
ReadLines(lines, p, category, dRegexCategory) ==
  IF p > Len(lines) THEN dRegexCategory
  ELSE IF lines[p].head THEN ReadLines(lines, p + 1, Upper(lines[p].text), dRegexCategory)
  ELSE IF Lower(lines[p].text) = "" THEN ReadLines(lines, p + 1, category, dRegexCategory)
  ELSE ReadLines(lines, p + 1, category, DictPut(dRegexCategory, Lower(lines[p].text), category))

\* dCategoryFrequency: the number of patterns of each category
CategoryFrequency(dRegexCategory) ==
  [c \in {dRegexCategory[j].val : j \in DOMAIN dRegexCategory} |->
     Cardinality({j \in DOMAIN dRegexCategory : dRegexCategory[j].val = c})]

\* what read_regex leaves in dData; it has no raise statement
read_regex(regex_file) ==
  [made |-> TRUE, raised |-> FALSE,
   regex_category |-> ReadLines(regex_file, 1, "", << >>),
   category_frequency |-> CategoryFrequency(ReadLines(regex_file, 1, "", << >>))]

\* the regex.txt of the tables above
StandardRegexFile ==
  << CategoryLine("ACKNOWLEDGE"), PatternLine("\\broger\\b"),
     CategoryLine("AIRCRAFT"), PatternLine("\\bsouthwest\\b"),
     CategoryLine("CALLSIGN"), PatternLine("\\bn\\d+[a-z]*\\b"),
     CategoryLine("INTNUMBER"), PatternLine("\\b\\d+\\b"),
     CategoryLine("CONTEXT"), PatternLine("\\buh\\b") >>

(***************************************************************************)
(* command_normalization: of its rewrites the ones that change an          *)
(* utterance of the vocabulary are the rewrites of "-", which split a      *)
(* hyphenated word in its parts, and .replace(" a ", " "), which drops the *)
(* word "a" between two words (occurrences found left to right, not        *)
(* overlapping: of two adjacent "a" only the first is dropped).            *)
(***************************************************************************)
\* str.split('-') of a word
HyphenParts(v) == CASE v = "a-plugh" -> <<"a", "plugh">>
                    [] v = "plugh-xyzzy" -> <<"plugh", "xyzzy">>
                    [] OTHER -> <<v>>

\* the word matches \b[a-z](\-)[a-z]+ : one letter before the hyphen
OneLetterHyphen(v) == v = "a-plugh"

\* .replace("-", " ") on the whole command
RECURSIVE SplitHyphens(_)
SplitHyphens(ws) ==
  IF ws = << >> THEN << >> ELSE HyphenParts(Head(ws)) \o SplitHyphens(Tail(ws))

RECURSIVE DropA(_, _)
DropA(ws, p) ==
  IF p >= Len(ws) THEN ws
  ELSE IF p > 1 /\ ws[p] = "a"
       THEN \* " a " is consumed with both its spaces: the next word cannot
            \* open another match
            DropA(Slice(ws, 1, p - 1) \o Slice(ws, p + 1, Len(ws)), p + 1)
       ELSE DropA(ws, p + 1)

\* parsing: a match of \b[a-z]+(\-)[a-z]+ turns every "-" into " ", and
\* .replace("-", " ") turns those that are left
command_normalization(command) == DropA(SplitHyphens(command), 1)

\* parsing_debug: a match of \b[a-z](\-)[a-z]+ turns every "-" of the command
\* into "=", .replace("-", " ") then finds none and .replace("=", "-") puts
\* them all back; without such a match every "-" becomes " "
command_normalization_debug(command) ==
  IF \E p \in DOMAIN command : OneLetterHyphen(command[p])
  THEN DropA(command, 1)
  ELSE DropA(SplitHyphens(command), 1)

(***************************************************************************)
(* text2placeholders                                                       *)
(***************************************************************************)
\* sorted(dData['regex_complexity'], key=..., reverse=True): the indices of
\* RegexTable by descending complexity; the sort is stable, so patterns of
\* equal complexity keep the order of the table.
RECURSIVE SortedBy(_, _)
SortedBy(rest, keyOf) ==
  IF rest = {} THEN << >>
  ELSE LET best == CHOOSE i \in rest :
                     \A j \in rest : keyOf[i] > keyOf[j] \/ (keyOf[i] = keyOf[j] /\ i <= j)
       IN <<best>> \o SortedBy(rest \ {best}, keyOf)

SortedPatterns ==
  SortedBy(DOMAIN RegexTable, [i \in DOMAIN RegexTable |-> RegexTable[i].complexity])

\* p.finditer(new_command): the position of the leftmost match of pattern i
\* in the buffer, or 0.  A pattern matches raw words only.
FirstMatch(buf, i) ==
  LET ps == {p \in DOMAIN buf : buf[p].k = "w" /\ Lower(buf[p].v) \in RegexTable[i].hits}
  IN IF ps = {} THEN 0 ELSE CHOOSE p \in ps : \A q \in ps : p <= q

\* the first pattern, in sorted order, that matches the buffer, or 0
RECURSIVE FirstPattern(_, _)
FirstPattern(buf, k) ==
  IF k > Len(SortedPatterns) THEN 0
  ELSE IF FirstMatch(buf, SortedPatterns[k]) > 0 THEN SortedPatterns[k]
  ELSE FirstPattern(buf, k + 1)

\* a bug: the counters go on from where the pass before left them
KeptCounters(prev) == prev

\* dCategoryMaxPlaceholderNumber = {} at the start of a pass; prev is what
\* the pass before left.
FreshCounters(prev) == [c \in {} |-> 0]

CounterOf(cnt, c) == IF c \in DOMAIN cnt THEN cnt[c] ELSE 0
CounterInc(cnt, c) ==
  [x \in DOMAIN cnt \cup {c} |-> IF x = c THEN CounterOf(cnt, c) + 1 ELSE cnt[x]]

\* One round of the while loop per replacement: the first pattern in sorted
\* order with a match replaces its leftmost match by the next placeholder of
\* its category, and the scan restarts.  dReplacement maps the placeholder
\* to the surface, wrapped in count markers '<' and '>'.
RECURSIVE t2p_loop(_, _, _, _)
t2p_replace(buf, dReplacement, count, pos, category_id, cnt2) ==
  t2p_loop(SetAt(buf, pos, category_id), cnt2,
           DictPut(dReplacement, category_id, [m |-> count + 1, t |-> <<buf[pos]>>]),
           count + 1)

t2p_match(buf, cnt, dReplacement, count, i) ==
  IF i = 0 THEN [cmd |-> buf, d |-> dReplacement, cnt |-> cnt, count |-> count]
  ELSE t2p_replace(buf, dReplacement, count, FirstMatch(buf, i),
                   PH(RegexTable[i].category, CounterOf(cnt, RegexTable[i].category) + 1),
                   CounterInc(cnt, RegexTable[i].category))

t2p_loop(buf, cnt, dReplacement, count) ==
  t2p_match(buf, cnt, dReplacement, count, FirstPattern(buf, 1))

text2placeholders(command, dReplacement, prevCounters) ==
  t2p_loop([p \in DOMAIN command |-> W(command[p])], FreshCounters(prevCounters), dReplacement, 0)

(***************************************************************************)
(* replace_unknown_phrases                                                 *)
(***************************************************************************)
\* dData['lex_words'] restricted to what the loop over them replaces by 'Y':
\* a word of the lexicon found in the command, unless it is alphabetic and
\* no preposition (so `no` and `and` are not replaced).
IsLexWord(t) ==
  \/ IsLexPlaceholder(t)
  \/ t.k = "ctx"
  \/ t.k = "w" /\ (t.v \in prepositions \cup {"no", "and"} \/ XWordIndex(t.v) \in 1..NumUnknownSlots)

MaskedY(t) ==
  IsLexWord(t) /\ ~(t.k = "w" /\ IsAlpha(t.v) /\ t.v \notin prepositions)

\* command_no_lex.split('Y'): the maximal runs of tokens that are not
\* masked.  A run is [lead, toks, trail]: its text starts with a space when
\* a masked token precedes it and ends with one when a masked token
\* follows.  The empty runs and the runs " " between two masked tokens
\* strip to '' and are skipped, so they are left out here.
RECURSIVE RunsFrom(_, _, _)
RunsFrom(cmd, p, cur) ==
  IF p > Len(cmd)
  THEN IF cur.toks = << >> THEN << >> ELSE << [cur EXCEPT !.trail = 0] >>
  ELSE IF MaskedY(cmd[p])
       THEN (IF cur.toks = << >> THEN << >> ELSE << [cur EXCEPT !.trail = 1] >>)
            \o RunsFrom(cmd, p + 1, [lead |-> 1, toks |-> << >>, trail |-> 0])
       ELSE RunsFrom(cmd, p + 1, [cur EXCEPT !.toks = Append(cur.toks, cmd[p])])

TokLen(t) ==
  CASE t.k = "w" -> WordLen(t.v)
    [] OTHER -> WordLen(t.v) + (IF t.n >= 10 THEN 2 ELSE 1)   \* a placeholder, e.g. intnumber10

RECURSIVE SumLen(_)
SumLen(toks) == IF toks = << >> THEN 0 ELSE TokLen(Head(toks)) + SumLen(Tail(toks))

\* dNoLex[word] = len(word)
RunLen(r) == r.lead + SumLen(r.toks) + (Len(r.toks) - 1) + r.trail

\* dNoLex keeps one entry per distinct run text, in order of first occurrence
RECURSIVE Distinct(_, _)
Distinct(rs, seen) ==
  IF rs = << >> THEN << >>
  ELSE IF Head(rs) \in seen THEN Distinct(Tail(rs), seen)
       ELSE <<Head(rs)>> \o Distinct(Tail(rs), seen \cup {Head(rs)})

\* sorted(dNoLex, key=dNoLex.get, reverse=True)
SortedRuns(rs) ==
  LET d == Distinct(rs, {})
      order == SortedBy(DOMAIN d, [j \in DOMAIN d |-> RunLen(d[j])])
  IN [j \in DOMAIN order |-> d[order[j]]]

\* p.finditer(command) for the pattern \b word \b: the matches of the token
\* sequence, left to right, not overlapping
RECURSIVE Occurrences(_, _, _)
Occurrences(cmd, toks, from) ==
  LET p == FindSub(cmd, toks, from)
  IN IF p = 0 THEN 0 ELSE 1 + Occurrences(cmd, toks, p + Len(toks))

\* for match in iterator: id += 1; re.sub(match, X_id, new_command, count=1);
\* dReplacement[X_id] = match
RECURSIVE AssignX(_, _, _, _, _)
AssignX(new_command, toks, k, id, dReplacement) ==
  IF k = 0 THEN [cmd |-> new_command, id |-> id, d |-> dReplacement]
  ELSE AssignX(ReplaceFirst(new_command, toks, <<XT(id + 1)>>), toks, k - 1, id + 1,
               DictPut(dReplacement, XT(id + 1), [m |-> 0, t |-> toks]))

RECURSIVE UnknownLoop(_, _, _, _, _)
UnknownLoop(command, runs, new_command, id, dReplacement) ==
  IF runs = << >> THEN [cmd |-> new_command, d |-> dReplacement, exc |-> FALSE]
  ELSE LET toks == Head(runs).toks
       IN IF \E p \in DOMAIN toks : toks[p].k = "w" /\ BadRegex(toks[p].v)
          THEN [cmd |-> new_command, d |-> dReplacement, exc |-> TRUE]   \* re.compile raises
          ELSE LET a == AssignX(new_command, toks, Occurrences(command, toks, 1), id, dReplacement)
               IN UnknownLoop(command, Tail(runs), a.cmd, a.id, a.d)

replace_unknown_phrases(command0, dReplacement) ==
  LET command == [p \in DOMAIN command0 |->
                    IF command0[p].k = "w" THEN W(Lower(command0[p].v)) ELSE command0[p]]
      runs == SortedRuns(RunsFrom(command, 1, [lead |-> 0, toks |-> << >>, trail |-> 0]))
  IN UnknownLoop(command, runs, command, 0, dReplacement)

\* parse_command, step 0: each match of \b(x)\d+\b (re.I) rewrites the first
\* occurrence of its letter by "X".  For a match "X<n>" nothing changes; for
\* a lowercase match the first lowercase x of the stream becomes X, which is
\* the x of `context<n>` when such a placeholder stands before it.
RECURSIVE XFix(_, _)
XFix(cmd, k) ==
  IF k = 0 THEN cmd
  ELSE LET ps == {p \in DOMAIN cmd : (cmd[p].k = "w" /\ XWordIndex(cmd[p].v) > 0)
                                     \/ (cmd[p].k = "ph" /\ cmd[p].v = "context")}
       IN IF ps = {} THEN cmd
          ELSE LET p == CHOOSE q \in ps : \A r \in ps : q <= r
                   t == IF cmd[p].k = "w" THEN XT(XWordIndex(cmd[p].v))
                        ELSE [k |-> "bad", v |-> cmd[p].v, n |-> cmd[p].n]
               IN XFix(SetAt(cmd, p, t), k - 1)

NumXWords(cmd) == Cardinality({p \in DOMAIN cmd : cmd[p].k = "w" /\ XWordIndex(cmd[p].v) > 0})

(***************************************************************************)
(* make_lexicon: the two lexicons.  A syntactic category is "S", "NP" or   *)
(* a category of the table; an entry [res, args, sem] of a word stands for *)
(* the rule  word => (res/args[n])/../args[1] {sem}.                       *)
(***************************************************************************)
\* lexicon_complex.txt: `#OF` sections with a rule
\*    RES/ARG {\x._RES_(_OF_(of1),x)}
\* as in the example  #AIRCRAFT  CALLSIGN/CALLSIGN {\x._CALLSIGN_(_AIRCRAFT_(aircraft1),x)}
lexicon_complex ==
  << [of |-> "aircraft", res |-> "callsign",    arg |-> "callsign"],
     [of |-> "callsign", res |-> "acknowledge", arg |-> "acknowledge"] >>

\* read_lexicon_complex: with the filter, a rule is kept when its text
\* holds '/' + a category of the filter + ' '
read_lexicon_complex(with_filter) ==
  {j \in DOMAIN lexicon_complex : ~with_filter \/ lexicon_complex[j].arg \in category_filter}

SynCats == Categories \cup {"NP"}

(***************************************************************************)
(* make_lexicon: the lexicon string, a sequence of rules                   *)
(*   word => syn {sem}                                                     *)
(* built from what read_regex and read_prepositions left in dData.         *)
(***************************************************************************)
Rule(word, syn, sem) == [word |-> word, syn |-> syn, sem |-> sem]

RECURSIVE Concat(_)
Concat(seqs) == IF seqs = << >> THEN << >> ELSE Head(seqs) \o Concat(Tail(seqs))

\* read_prepositions: the lines that are not blank, in lower case
RECURSIVE read_prepositions(_)
read_prepositions(lines) ==
  IF lines = << >> THEN << >>
  ELSE (IF Head(lines) = "" THEN << >> ELSE <<Lower(Head(lines))>>)
       \o read_prepositions(Tail(lines))

\* the keys of dCategoryFrequency in the order of insertion: the order in
\* which the categories first occur in dRegexCategory
RECURSIVE CategoryOrder(_, _)
CategoryOrder(dRegexCategory, j) ==
  IF j > Len(dRegexCategory) THEN << >>
  ELSE (IF \E q \in 1..(j - 1) : dRegexCategory[q].val = dRegexCategory[j].val
        THEN << >> ELSE <<dRegexCategory[j].val>>)
       \o CategoryOrder(dRegexCategory, j + 1)

\* the place of a category name in sorted()
CategoryRank(c) == CASE c = "" -> 0 [] c = "ACKNOWLEDGE" -> 1 [] c = "AIRCRAFT" -> 2
                     [] c = "CALLSIGN" -> 3 [] c = "CONTEXT" -> 4 [] c = "INTNUMBER" -> 5
                     [] c = "NAVAID" -> 6 [] c = "RUNWAY" -> 7 [] OTHER -> 8

\* sorted(dData['category_frequency'])
SortedCategories(cats) ==
  SortedBy(DOMAIN cats, [j \in DOMAIN cats |-> 0 - CategoryRank(cats[j])])

\* lex_common: the rules of _context_ and of `no`, then for every category
\* three rules of _context_ and one of `and`
lex_common(cats) ==
  << Rule(CTX, <<"(S/S)/NP">>, "context_xy"), Rule(CTX, <<"(S/NP)/S">>, "context_yx"),
     Rule(CTX, <<"S/NP">>, "context_z"),
     Rule(W("no"), <<"S/NP">>, "no_z"), Rule(W("no"), <<"S/S">>, "no_z") >>
  \o Concat([k \in 1..Len(cats) |->
        LET c == cats[SortedCategories(cats)[k]]
        IN << Rule(CTX, <<"(S/S)/", c>>, "context_xy"),
              Rule(CTX, <<"(S/", c, ")/S">>, "context_yx"),
              Rule(CTX, <<"S/", c>>, "context_z"),
              Rule(W("and"), <<c, "/", c>>, "AND_x") >>])

\* a bug: the last placeholder of the category gets no rule
make_lex_all_category_short(category) ==
  [n \in 1..(placeholder_number(Lower(category)) - 1) |->
     Rule(PH(Lower(category), n), <<category>>, "simple")]

\* make_lex_all_category: placeholder => CATEGORY {_CATEGORY_(placeholder)}
\* for the placeholders category1 .. categoryN of dCategoryPlaceholder
make_lex_all_category(category) ==
  [n \in 1..placeholder_number(Lower(category)) |->
     Rule(PH(Lower(category), n), <<category>>, "simple")]

\* make_lex_complex: each rule kept of lexicon_complex.txt, once for every
\* placeholder of the category of its section
make_lex_complex(with_filter) ==
  Concat([j \in DOMAIN lexicon_complex |->
    IF j \in read_lexicon_complex(with_filter)
    THEN [n \in 1..placeholder_number(lexicon_complex[j].of) |->
            Rule(PH(lexicon_complex[j].of, n),
                 <<lexicon_complex[j].res, "/", lexicon_complex[j].arg>>, "complex")]
    ELSE << >>])

\* make_lex_preposition: a rule per category and preposition, then the
\* rule NP/NP of every preposition
make_lex_preposition(cats, preps) ==
  Concat([k \in 1..Len(cats) |->
            [q \in 1..Len(preps) |-> Rule(W(preps[q]), <<cats[k], "/", cats[k]>>, "keyword")]])
  \o [q \in 1..Len(preps) |-> Rule(W(preps[q]), <<"NP/NP">>, "keyword")]

\* lex_last_part: X1 => CONTEXT {X1} .. X12 => CONTEXT {X12}
lex_last_part == [n \in 1..NumUnknownSlots |-> Rule(XT(n), <<"CONTEXT">>, "bare")]

\* the string given to lexicon.fromstring
LexiconString(cats, preps, with_filter) ==
  lex_common(cats)
  \o Concat([k \in 1..Len(cats) |-> make_lex_all_category(cats[k])])
  \o make_lex_complex(with_filter)
  \o make_lex_preposition(cats, preps)
  \o lex_last_part

\* make_lexicon(dData): read_regex and read_prepositions fill the tables
make_lexicon(regex_lines, preposition_lines) ==
  LET d == read_regex(regex_lines)
  IN [made |-> TRUE, raised |-> FALSE,
      regex_category |-> d.regex_category,
      category_frequency |-> d.category_frequency,
      prepositions |-> read_prepositions(preposition_lines)]

\* the lexicons that make_lexicon builds of the tables: that of
\* dData['command_parser'] and that of dData['LF_parser']
lex_no_filter(d) == LexiconString(CategoryOrder(d.regex_category, 1), d.prepositions, FALSE)
lex_with_filter(d) == LexiconString(CategoryOrder(d.regex_category, 1), d.prepositions, TRUE)

\* prepositions.txt of the tables above
StandardPrepositionsFile == <<"the">>

LexEntries(t, with_filter) ==
  CASE IsLexPlaceholder(t) ->
         \* make_lex_all_category and make_lex_complex
         {[res |-> t.v, args |-> << >>, sem |-> "simple", head |-> t.v]}
         \cup {[res |-> lexicon_complex[j].res, args |-> <<lexicon_complex[j].arg>>,
                sem |-> "complex", head |-> lexicon_complex[j].res] :
                  j \in {r \in read_lexicon_complex(with_filter) : lexicon_complex[r].of = t.v}}
    [] t.k = "w" /\ t.v \in prepositions ->
         \* make_lex_preposition
         {[res |-> c, args |-> <<c>>, sem |-> "keyword", head |-> t.v] : c \in SynCats}
    [] t.k = "w" /\ t.v = "no" ->
         \* lex_common
         {[res |-> "S", args |-> <<c>>, sem |-> "keyword", head |-> "no"] : c \in {"NP", "S"}}
    [] t.k = "ctx" ->
         \* lex_common
         {[res |-> "S", args |-> <<c>>, sem |-> "keyword", head |-> "context"] : c \in SynCats}
         \cup {[res |-> "S", args |-> <<c, "S">>, sem |-> "xy", head |-> "context"] : c \in SynCats}
         \cup {[res |-> "S", args |-> <<"S", c>>, sem |-> "yx", head |-> "context"] : c \in SynCats}
    [] t.k = "X" /\ t.n \in 1..NumUnknownSlots ->
         \* lex_last_part
         {[res |-> "context", args |-> << >>, sem |-> "bare", head |-> ""]}
    [] OTHER -> {}

\* the semantics of an entry applied to the semantics of its arguments
Sem0(e, t) == IF e.sem = "bare" THEN <<t>> ELSE <<HU(e.head), LP, t, RP>>
Sem1(e, t, x) ==
  IF e.sem = "complex"
  THEN <<HU(e.head), LP, HU(t.v), LP, t, RP, COMMA>> \o x \o <<RP>>
  ELSE <<HL(e.head), LP>> \o x \o <<RP>>
Sem2(e, t, a1, a2) ==
  IF e.sem = "xy"
  THEN <<HL(e.head), LP>> \o a1 \o <<COMMA>> \o a2 \o <<RP>>
  ELSE <<HL(e.head), LP>> \o a2 \o <<COMMA>> \o a1 \o <<RP>>

(***************************************************************************)
(* parser.parse(tokens): the readings of category goal of a token          *)
(* sequence.  Every rule of the lexicons takes its arguments on the right, *)
(* so the first token is the functor of the derivation and the rest        *)
(* splits into its arguments (composition adds no reading to these).       *)
(***************************************************************************)
RECURSIVE Derive(_, _, _)
Derive(toks, goal, with_filter) ==
  IF toks = << >> THEN {}
  ELSE LET t == Head(toks)
           rest == Tail(toks)
           es == {e \in LexEntries(t, with_filter) : e.res = goal}
           ReadingsOf(e) ==
             CASE Len(e.args) = 0 -> IF rest = << >> THEN {Sem0(e, t)} ELSE {}
               [] Len(e.args) = 1 -> {Sem1(e, t, x) : x \in Derive(rest, e.args[1], with_filter)}
               [] OTHER ->
                    UNION {{Sem2(e, t, a1, a2) :
                              a1 \in Derive(Slice(rest, 1, k), e.args[1], with_filter),
                              a2 \in Derive(Slice(rest, k + 1, Len(rest)), e.args[2], with_filter)} :
                            k \in 1..(Len(rest) - 1)}
       IN UNION {ReadingsOf(e) : e \in es}

\* list(parser.parse(segment.split())): the parses of the start category S
Parses(toks, with_filter) == Derive(toks, "S", with_filter)

(***************************************************************************)
(* parse_segment                                                           *)
(***************************************************************************)
\* the empty word that str.split(' ') yields for a trailing or doubled space
EMPTY == [k |-> "empty", v |-> "", n |-> 0]

\* segment.split()
SplitWords(segment) == SelectSeq(segment, LAMBDA t : t # EMPTY)

\* the while loop: attempt k hands the segment prefixed by k copies of
\* _context_ to the parser, for k = 0..maxExpansions, until a parse is found.
\* The result is [parses, calls]: the parses of the last attempt and the
\* token sequences handed to the parser.
RECURSIVE Attempts(_, _, _, _)
\* a bug of the loop guard: one more attempt than maxExpansions allows
AttemptsWithExtra(with_filter, toks, nExpansions, maxExpansions, parses) ==
  IF parses # {} \/ nExpansions > maxExpansions
  THEN [parses |-> parses, calls |-> <<toks>>]
  ELSE [Attempts(with_filter, <<CTX>> \o toks, nExpansions + 1, maxExpansions)
          EXCEPT !.calls = <<toks>> \o @]

AttemptsWith(with_filter, toks, nExpansions, maxExpansions, parses) ==
  IF parses # {} \/ nExpansions + 1 > maxExpansions
  THEN [parses |-> parses, calls |-> <<toks>>]
  ELSE [Attempts(with_filter, <<CTX>> \o toks, nExpansions + 1, maxExpansions)
          EXCEPT !.calls = <<toks>> \o @]

Attempts(with_filter, toks, nExpansions, maxExpansions) ==
  AttemptsWith(with_filter, toks, nExpansions, maxExpansions, Parses(toks, with_filter))

\* the regular expression \b + X + \b cannot be compiled: X is text cut out
\* of a logical form that holds '*' or an unbalanced ')'
BadKey(key) == key.k = "ph" /\ key.v = "?"

\* for X in dReplacement: re.sub(r"\b"+X+r"\b", '*'+Y+'*', LF, count=1), in
\* the order of insertion; the markers '<' and '>' of Y are stripped after
RECURSIVE Substitute(_, _, _)
Substitute(LF, d, j) ==
  IF j > Len(d) THEN LF
  ELSE Substitute(ReplaceFirst(LF, <<d[j].key>>, <<STAR>> \o d[j].val.t \o <<STAR>>), d, j + 1)

\* parse_segment after the while loop: LF = str(parses[0].label()...), then
\* the substitutions.  The result is [lf, calls, exc]: the LF ('' when no
\* attempt parsed), the parser calls, and whether re.sub raised.
SegmentLF(a, dReplacement_1, dReplacement_2) ==
  IF a.parses = {} THEN [lf |-> << >>, calls |-> a.calls, exc |-> FALSE]
  ELSE IF \E j \in DOMAIN dReplacement_1 : BadKey(dReplacement_1[j].key)
  THEN [lf |-> << >>, calls |-> a.calls, exc |-> TRUE]
  ELSE [lf |-> Substitute(Substitute(CHOOSE r \in a.parses : TRUE, dReplacement_1, 1),
                          dReplacement_2, 1),
        calls |-> a.calls, exc |-> FALSE]

parse_segment(with_filter, segment, maxExpansions, dReplacement_1, dReplacement_2) ==
  SegmentLF(Attempts(with_filter, SplitWords(segment), 0, maxExpansions),
            dReplacement_1, dReplacement_2)

(***************************************************************************)
(* parse_command: r"\b_context_\(_(.+)\)" (re.I) replaced by '_' + \1.     *)
(* The match starts at the leftmost head `context` (in either case) whose  *)
(* argument starts with another head and, .+ being greedy, ends at the     *)
(* last ')' of the string: the head, its '(' and that last ')' go.         *)
(***************************************************************************)
LastRP(LF) ==
  LET ps == {p \in DOMAIN LF : LF[p] = RP}
  IN IF ps = {} THEN 0 ELSE CHOOSE p \in ps : \A q \in ps : q <= p

\* a bug of the pattern: the closing \) is left out, the last ')' stays
UnwrapContextKeepRP(LF) ==
  LET ps == {p \in DOMAIN LF : /\ IsHead(LF[p]) /\ LF[p].v = "context"
                               /\ p + 2 <= Len(LF) /\ LF[p + 1] = LP /\ IsHead(LF[p + 2])}
  IN IF ps = {} THEN LF
     ELSE LET p == CHOOSE q \in ps : \A r \in ps : q <= r
          IN Slice(LF, 1, p - 1) \o Slice(LF, p + 2, Len(LF))

UnwrapContext(LF) ==
  LET ps == {p \in DOMAIN LF : /\ IsHead(LF[p]) /\ LF[p].v = "context"
                               /\ p + 2 <= Len(LF) /\ LF[p + 1] = LP /\ IsHead(LF[p + 2])
                               /\ LastRP(LF) > p + 2}
  IN IF ps = {} THEN LF
     ELSE LET p == CHOOSE q \in ps : \A r \in ps : q <= r
              e == LastRP(LF)
          IN Slice(LF, 1, p - 1) \o Slice(LF, p + 2, e - 1) \o Slice(LF, e + 1, Len(LF))

(***************************************************************************)
(* clean_LF                                                                *)
(***************************************************************************)
\* a bug of clean_LF: the stars around a term put in a term are left
KeepStars(LF) == LF

\* LF.replace('*_','_').replace(')*',')')
StripStars(LF) ==
  LET a == SelectSeq([p \in DOMAIN LF |->
                        IF LF[p] = STAR /\ p < Len(LF) /\ (IsHead(LF[p + 1]) \/ LF[p + 1] = CTX)
                        THEN EMPTY ELSE LF[p]], LAMBDA t : t # EMPTY)
  IN SelectSeq([p \in DOMAIN a |->
                  IF a[p] = STAR /\ p > 1 /\ a[p - 1] = RP THEN EMPTY ELSE a[p]],
               LAMBDA t : t # EMPTY)

\* a token of the class [\s\w\d\-\,\.\*\']
InClass1(t) == t.k \in {"w", "ph", "X", "ctx", "bad", "H", "h", ",", "*"}
\* a token of the class [\s\w\d\-\,\.\*\'\(\)]
InClass3(t) == InClass1(t) \/ t.k \in {"(", ")"}

\* the end of the maximal run of tokens of a class that starts at p (p - 1
\* when LF[p] is not of the class)
RECURSIVE RunEnd(_, _, _)
RunEnd(LF, p, wide) ==
  IF p > Len(LF) THEN p - 1
  ELSE IF (IF wide THEN InClass3(LF[p]) ELSE InClass1(LF[p])) THEN RunEnd(LF, p + 1, wide)
  ELSE p - 1

\* (_[a-z]+_)\( ... \1\( : a head at p, '(' , some heads more, and at q the
\* same head name again (re.I: in either case) with its '('
SameHeadAt(LF, p, q) ==
  /\ q + 1 <= Len(LF)
  /\ IsHead(LF[p]) /\ LF[p + 1] = LP
  /\ IsHead(LF[q]) /\ LF[q].v = LF[p].v /\ LF[q + 1] = LP

\* A match of pattern kind at position p: [e |-> its last position, g |-> the
\* first position of group 2, h |-> the last position of group 2], e = 0
\* when there is none.
\*  1: \b(_[a-z]+_)\(((\1\([\s\w\d\-\,\.\*\']+\)))\)
\*  2: \b(_[a-z]+_)\(((_[a-z]+_\(\1\([\s\w\d\-\,\.\*\']+\)\)))\)
\*  3: \b(_[a-z]+_)\(((\1\([\s\w\d\-\,\.\*\'\(\)]+\)))\)
NoMatch == [e |-> 0, g |-> 0, h |-> 0]

MatchAt(LF, p, kind) ==
  CASE kind = 1 ->
         IF SameHeadAt(LF, p, p + 2)
         THEN LET r == RunEnd(LF, p + 4, FALSE)
              IN IF r >= p + 4 /\ r + 2 <= Len(LF) /\ LF[r + 1] = RP /\ LF[r + 2] = RP
                 THEN [e |-> r + 2, g |-> p + 2, h |-> r + 1] ELSE NoMatch
         ELSE NoMatch
    [] kind = 2 ->
         IF p + 3 <= Len(LF) /\ IsHead(LF[p + 2]) /\ LF[p + 3] = LP /\ SameHeadAt(LF, p, p + 4)
         THEN LET r == RunEnd(LF, p + 6, FALSE)
              IN IF r >= p + 6 /\ r + 3 <= Len(LF)
                    /\ LF[r + 1] = RP /\ LF[r + 2] = RP /\ LF[r + 3] = RP
                 THEN [e |-> r + 3, g |-> p + 2, h |-> r + 2] ELSE NoMatch
         ELSE NoMatch
    [] OTHER ->
         IF SameHeadAt(LF, p, p + 2)
         THEN LET r == RunEnd(LF, p + 4, TRUE)
                  \* greedy: the last "))" of the run, after one token at least
                  es == {e \in (p + 6)..r : LF[e - 1] = RP /\ LF[e] = RP}
              IN IF es = {} THEN NoMatch
                 ELSE LET e == CHOOSE x \in es : \A y \in es : y <= x
                      IN [e |-> e, g |-> p + 2, h |-> e - 1]
         ELSE NoMatch

\* p.finditer(LF): the matches left to right, not overlapping
RECURSIVE FindIter(_, _, _)
FoundAt(LF, p, kind, m) ==
  IF m.e = 0 THEN FindIter(LF, p + 1, kind)
  ELSE <<[to_replace |-> SubSeq(LF, p, m.e), replace_by |-> SubSeq(LF, m.g, m.h)]>>
       \o FindIter(LF, m.e + 1, kind)

FindIter(LF, p, kind) ==
  IF p > Len(LF) THEN << >> ELSE FoundAt(LF, p, kind, MatchAt(LF, p, kind))

\* a bug of the third block: replace_by is not checked
BracketsNotChecked(a, p, b_open, b_close, min_equal) == TRUE

\* "check if replace_by is good in terms of brackets"
RECURSIVE BracketsOk(_, _, _, _, _)
BracketsOk(a, p, b_open, b_close, min_equal) ==
  IF p > Len(a) THEN b_open = b_close
  ELSE LET o == b_open + (IF a[p] = LP THEN 1 ELSE 0)
           c == b_close + (IF a[p] = RP THEN 1 ELSE 0)
           m == IF o = c /\ min_equal = 0 /\ o > 0 THEN o ELSE min_equal
       IN IF o < c THEN FALSE
          ELSE IF m > 0 /\ (m < o \/ m < c) THEN FALSE
          ELSE BracketsOk(a, p + 1, o, c, m)

\* for match in iterator: LF = LF.replace(to_replace, replace_by)
RECURSIVE ApplyMatches(_, _, _)
ApplyMatches(LF, ms, checked) ==
  IF ms = << >> THEN LF
  ELSE LET m == Head(ms)
           ok == ~checked \/ BracketsOk(m.replace_by, 1, 0, 0, 0)
       IN ApplyMatches(IF ok THEN ReplaceAll(LF, m.to_replace, m.replace_by) ELSE LF,
                       Tail(ms), checked)

\* one of the three blocks of clean_LF: the matches of the pattern in LF are
\* replaced in LF; the third block checks the brackets of replace_by
Pattern(LF, kind) == ApplyMatches(LF, FindIter(LF, 1, kind), kind = 3)

clean_LF(LF0) == Pattern(Pattern(Pattern(StripStars(LF0), 1), 2), 3)

(***************************************************************************)
(* LF2placeholders                                                         *)
(***************************************************************************)
\* a bug of the split: the items are cut at ',' as well as at ';'
RECURSIVE SplitItemsAtComma(_, _)
SplitItemsAtComma(LF, cur) ==
  IF LF = << >> THEN (IF cur = << >> THEN << >> ELSE <<cur>>)
  ELSE IF Head(LF) \in {SEMI, COMMA}
       THEN (IF cur = << >> THEN << >> ELSE <<cur>>) \o SplitItemsAtComma(Tail(LF), << >>)
       ELSE SplitItemsAtComma(Tail(LF), Append(cur, Head(LF)))

\* LF.split(';'), each item stripped, the empty ones skipped
RECURSIVE SplitItems(_, _)
SplitItems(LF, cur) ==
  IF LF = << >> THEN (IF cur = << >> THEN << >> ELSE <<cur>>)
  ELSE IF Head(LF) = SEMI
       THEN (IF cur = << >> THEN << >> ELSE <<cur>>) \o SplitItems(Tail(LF), << >>)
       ELSE SplitItems(Tail(LF), Append(cur, Head(LF)))

\* the text of the token has an upper-case letter
HasUpper(t) == \/ t.k \in {"H", "X", "bad"}
               \/ t.k = "w" /\ Lower(t.v) # t.v
\* the text of the token holds 'context'
HasContext(t) == t.v = "context" /\ t.k \in {"H", "h", "ph", "ctx"}

\* LF_item.lower() == LF_item
AllLower(item) == \A p \in DOMAIN item : ~HasUpper(item[p])

\* for item in LF_item.split('_('): the first piece that is not all
\* lower-case or holds 'context' gives the category, stripped of '_' and
\* lowercased.  A piece is the text between two "_(": the arguments that
\* follow one head, then the name of the next head.  When the piece is a
\* head name alone, the category is that name; when it holds argument text
\* the category is that text ("?": no category of the lexicon); when no
\* piece qualifies it is "".
RECURSIVE CategoryOf(_, _, _, _)
CategoryOf(item, p, sawText, textQualifies) ==
  IF p > Len(item) THEN (IF textQualifies THEN "?" ELSE "")
  ELSE LET t == item[p]
       IN IF IsHead(t) /\ p < Len(item) /\ item[p + 1] = LP
          THEN IF textQualifies \/ t.k = "H" \/ HasContext(t)
               THEN (IF sawText THEN "?" ELSE t.v)
               ELSE CategoryOf(item, p + 2, FALSE, FALSE)
          ELSE CategoryOf(item, p + 1, TRUE, textQualifies \/ HasUpper(t) \/ HasContext(t))

RECURSIVE lf2p_loop(_, _, _, _, _)
lf2p_loop(items, new_command, cnt, dReplacement, count) ==
  IF items = << >>
  THEN [cmd |-> new_command, d |-> dReplacement, cnt |-> cnt, count |-> count]
  ELSE LET LF_item == IF AllLower(Head(items))
                      THEN <<HL("context"), LP>> \o Head(items) \o <<RP>>
                      ELSE Head(items)
           category == CategoryOf(LF_item, 1, FALSE, FALSE)
           cnt2 == CounterInc(cnt, category)
           categoryID == PH(category, cnt2[category])
       IN IF category = "" THEN lf2p_loop(Tail(items), new_command, cnt, dReplacement, count)
          ELSE lf2p_loop(Tail(items), new_command \o <<categoryID>>, cnt2,
                         DictPut(dReplacement, categoryID, [m |-> count + 1, t |-> LF_item]),
                         count + 1)

\* new_command is the placeholders, each followed by a space: split(' ')
\* yields one empty word after the last
LF2placeholders(LF, dReplacement, prevCounters) ==
  LET r == lf2p_loop(SplitItems(LF, << >>), << >>, FreshCounters(prevCounters), dReplacement, 0)
  IN [r EXCEPT !.cmd = IF r.cmd = << >> THEN << >> ELSE r.cmd \o <<EMPTY>>]

(***************************************************************************)
(* parse_command                                                           *)
(***************************************************************************)
maxExpansion == 1
max_segment_length == 7

\* dReplacement_1 = {} and dReplacement_2 = {} at the start of a pass; prev
\* is what the pass before left.
FreshReplacement(prev) == << >>

\* what is done to the LF of a segment that parsed: the unwrap, clean_LF
\* after step 0, and LF_final = LF_final + LF_replacement + '; '
FinishSegment(LF_replacement, step) ==
  (IF step > 0 THEN clean_LF(UnwrapContext(LF_replacement)) ELSE UnwrapContext(LF_replacement))
  \o <<SEMI>>

\* for j in range(len(command_new_words) - 1, -1, -1): the first prefix
\* command_new_words[0:j+1] that parses; j > max_segment_length is skipped.
\* The result is [j, lf, exc, segs, ncalls]: j = -1 when no prefix parsed.
RECURSIVE TryPrefixes(_, _, _, _, _)
TryPrefix(parser, words, j, d1, d2, r) ==
  IF r.exc \/ r.lf # << >>
  THEN [j |-> j, lf |-> r.lf, exc |-> r.exc, segs |-> <<SubSeq(words, 1, j + 1)>>,
        ncalls |-> Len(r.calls)]
  ELSE [TryPrefixes(parser, words, j - 1, d1, d2)
          EXCEPT !.segs = <<SubSeq(words, 1, j + 1)>> \o @, !.ncalls = Len(r.calls) + @]

TryPrefixes(parser, words, j, d1, d2) ==
  IF j < 0 THEN [j |-> -1, lf |-> << >>, exc |-> FALSE, segs |-> << >>, ncalls |-> 0]
  ELSE IF j > max_segment_length THEN TryPrefixes(parser, words, j - 1, d1, d2)
  ELSE TryPrefix(parser, words, j, d1, d2,
                 parse_segment(parser = "LF_parser", SubSeq(words, 1, j + 1), maxExpansion, d1, d2))

\* len(command_new) > 0 for the string ' '.join(words)
NonEmptyString(words) == words # << >> /\ words # <<EMPTY>>

\* while len(command_new) > 0: ...   pos is the number of words consumed
\* so far.  The result is [lf, exc, segs, accepted, lost, ncalls]: accepted
\* are the segments that parsed, with their place and LF; lost are the words
\* discarded with a 1-word prefix that did not parse.
RECURSIVE Segmenting(_, _, _, _, _, _)
Accept(pos, seg, out, more) ==
  [more EXCEPT !.lf = out \o @,
               !.accepted = <<[pos |-> pos + 1, seg |-> seg, lf |-> out]>> \o @]

SegmentingWith(parser, command_new, pos, d1, d2, step, t) ==
  IF t.exc \/ t.j < 0
  THEN \* re.sub raised, or: if LF_replacement == '' and j == 0: command_new = ''
       [lf |-> << >>, exc |-> t.exc, segs |-> t.segs, accepted |-> << >>,
        lost |-> IF t.exc THEN << >> ELSE Tail(command_new), ncalls |-> t.ncalls]
  ELSE [Accept(pos, SubSeq(command_new, 1, t.j + 1), FinishSegment(t.lf, step),
               Segmenting(parser, Slice(command_new, t.j + 2, Len(command_new)),
                          pos + t.j + 1, d1, d2, step))
          EXCEPT !.segs = t.segs \o @, !.ncalls = t.ncalls + @]

Segmenting(parser, command_new, pos, d1, d2, step) ==
  IF ~NonEmptyString(command_new)
  THEN [lf |-> << >>, exc |-> FALSE, segs |-> << >>, accepted |-> << >>, lost |-> << >>, ncalls |-> 0]
  ELSE SegmentingWith(parser, command_new, pos, d1, d2, step,
                      TryPrefixes(parser, command_new, Len(command_new) - 1, d1, d2))

\* parse_command from the first parse_segment on.  base is the record of
\* the pass so far, r the result of parse_segment on the whole stream.
WholeOrSegments(parser, step, base, r) ==
  IF r.exc THEN [base EXCEPT !.exc = TRUE, !.ncalls = Len(r.calls)]
  ELSE IF r.lf # << >>
  THEN Accept(0, base.stream, FinishSegment(r.lf, step),
              [base EXCEPT !.whole = TRUE, !.ncalls = Len(r.calls)])
  ELSE [Segmenting(parser, base.stream, 0, base.d1, base.d2, step) @@ base
          EXCEPT !.ncalls = Len(r.calls) + @]

ParseStream(parser, step, base) ==
  WholeOrSegments(parser, step, base,
                  parse_segment(parser = "LF_parser", base.stream, maxExpansion, base.d1, base.d2))

\* the placeholders are in place: a is the result of text2placeholders or
\* LF2placeholders, u of replace_unknown_phrases
WithPlaceholders(parser, step, a, u) ==
  IF u.exc
  THEN [lf |-> << >>, exc |-> TRUE, stream |-> << >>, whole |-> FALSE, segs |-> << >>,
        accepted |-> << >>, lost |-> << >>, ncalls |-> 0, d1 |-> a.d, d2 |-> u.d, cnt |-> a.cnt]
  ELSE ParseStream(parser, step,
         [lf |-> << >>, exc |-> FALSE,
          stream |-> IF step = 0 THEN XFix(u.cmd, NumXWords(u.cmd)) ELSE u.cmd,
          whole |-> FALSE, segs |-> << >>, accepted |-> << >>, lost |-> << >>, ncalls |-> 0,
          d1 |-> a.d, d2 |-> u.d, cnt |-> a.cnt])

Placeholders(parser, step, a, e0) ==
  WithPlaceholders(parser, step, a,
                   IF step = 0 THEN replace_unknown_phrases(a.cmd, e0)
                   ELSE [cmd |-> a.cmd, d |-> e0, exc |-> FALSE])

\* The record a pass returns: lf, the LF_final (meaningless when exc, the
\* pass raised); stream, the placeholder stream handed to the parser; whole,
\* whether the whole stream parsed; segs, the candidate segments of the
\* fallback; accepted and lost as above; ncalls, the number of parser calls;
\* d1, d2, cnt: dReplacement_1, dReplacement_2 and the category counters as
\* the pass left them.
parse_command(parser, command, step, prev) ==
  Placeholders(parser, step,
               IF step = 0 THEN text2placeholders(command, FreshReplacement(prev.d1), prev.cnt)
               ELSE LF2placeholders(command, FreshReplacement(prev.d1), prev.cnt),
               FreshReplacement(prev.d2))

(***************************************************************************)
(* logicalForm2JSON.  A JSON text is a sequence of tokens as well: a key    *)
(* "NAME": is the token [k |-> "K", v |-> name, n |-> index] (k = "k" for a *)
(* name in lower case, index 0 while the key has none), the text `"the `    *)
(* that a function word puts before a key is the token PRE, and JQ, LB, RB  *)
(* are the characters " { }.  SEMI stands for ', ' and the words of a       *)
(* surface stay as they are.                                                *)
(***************************************************************************)
JQ == Sym("q")
LB == Sym("{")
RB == Sym("}")
PRE(word) == [k |-> "pre", v |-> word, n |-> 0]
\* a leaf that lost its first character
Cut(t) == [k |-> "cut", v |-> t.k, n |-> t.n]

IsKey(t) == t.k \in {"K", "k"}
IsLeafWord(t) == t.k \in {"w", "ph", "X", "bad"}

\* '{' + LF.replace(';', ',').replace('_(', '":{').replace('_', '"')
\*         .replace(')', '}').replace('*', '"') + '}'
CharReplace(LF) ==
  <<LB>> \o
  [p \in DOMAIN LF |->
     IF IsHead(LF[p]) /\ p < Len(LF) /\ LF[p + 1] = LP
     THEN [k |-> IF LF[p].k = "H" THEN "K" ELSE "k", v |-> LF[p].v, n |-> 0]
     ELSE IF LF[p] = LP /\ p > 1 /\ IsHead(LF[p - 1]) THEN LB
     ELSE IF LF[p] = RP THEN RB
     ELSE IF LF[p] = STAR THEN JQ
     ELSE LF[p]]
  \o <<RB>>

IsSeparator(t) == t \in {COMMA, SEMI}
InFlatBody(t) == IsLeafWord(t) \/ IsKey(t) \/ t.k = "pre" \/ t \in {JQ, COMMA, SEMI}

InRun(t, class) ==
  CASE class = "leaf" -> IsLeafWord(t)
    [] class = "separator" -> IsSeparator(t)
    [] class = "flat" -> InFlatBody(t)

\* the end of the run of tokens of a class that starts at p: p - 1 when
\* there is none
RunEndFrom(J, p, stop) == IF stop = 0 THEN Len(J) ELSE stop - 1
RunOf(J, p, class) == RunEndFrom(J, p, Least({q \in p..Len(J) : ~InRun(J[q], class)}))

\* J without the positions in `drop`
Without(J, drop) ==
  SelectSeq([p \in DOMAIN J |-> IF p \in drop THEN EMPTY ELSE J[p]], LAMBDA t : t # EMPTY)

\* clean_JSON, first loop: \{\"[\w\d\s\.\'\-]+\"\} loses its braces, until
\* nothing changes.  QuotedEnd is the position of the closing brace of a
\* match that starts at p, or 0.
QuotedEndAt(J, p, e) ==
  IF p + 4 <= Len(J) /\ J[p] = LB /\ J[p + 1] = JQ
     /\ e >= p + 2 /\ e + 2 <= Len(J) /\ J[e + 1] = JQ /\ J[e + 2] = RB
  THEN e + 2 ELSE 0

QuotedEnd(J, p) == QuotedEndAt(J, p, RunOf(J, p + 2, "leaf"))

QuotedBraces(J, starts) == starts \cup {QuotedEnd(J, p) : p \in starts}

RECURSIVE StripBraces(_)
StripUntil(J, next) == IF next = J THEN J ELSE StripBraces(next)

StripBraces(J) ==
  StripUntil(J, Without(J, QuotedBraces(J, {p \in DOMAIN J : QuotedEnd(J, p) # 0})))

\* clean_JSON, second loop: [\,\s]+\} becomes }
BeforeBrace(J, p, e) == IsSeparator(J[p]) /\ e < Len(J) /\ J[e + 1] = RB

DropBeforeBrace(J) ==
  Without(J, {p \in DOMAIN J : BeforeBrace(J, p, RunOf(J, p, "separator"))})

\* clean_JSON, third loop: (\"[a-z]+\"\:\{)(\1[\"\w\d\s\_\:\,]+\})\}, re.I,
\* is replaced by its second group, until nothing changes.  DuplicateEnd is
\* the position of the last brace of a match that starts at p, or 0.
DuplicateEndAt(J, p, e) ==
  IF p + 6 <= Len(J)
     /\ IsKey(J[p]) /\ J[p].n = 0 /\ J[p + 1] = LB
     /\ IsKey(J[p + 2]) /\ J[p + 2].n = 0 /\ J[p + 2].v = J[p].v /\ J[p + 3] = LB
     /\ (p = 1 \/ J[p - 1].k # "pre")
     /\ e >= p + 4 /\ e + 2 <= Len(J) /\ J[e + 1] = RB /\ J[e + 2] = RB
  THEN e + 2 ELSE 0

DuplicateEnd(J, p) == DuplicateEndAt(J, p, RunOf(J, p + 4, "flat"))

DuplicateParts(J, starts) ==
  starts \cup {p + 1 : p \in starts} \cup {DuplicateEnd(J, p) : p \in starts}

RECURSIVE DropDuplicates(_)
DropUntil(J, next) == IF next = J THEN J ELSE DropDuplicates(next)

DropDuplicates(J) ==
  DropUntil(J, Without(J, DuplicateParts(J, {p \in DOMAIN J : DuplicateEnd(J, p) # 0})))

\* clean_JSON, fourth loop: for each word of the list and k = 0..3 the
\* pattern ("the":\{)([...]+?\}{k})\} is searched; a match whose second
\* group has balanced braces is replaced by '"the ' + group[1:].  The lazy
\* group ends before the first run of k + 1 closing braces.
function_words == <<"the", "have", "your", "are", "over", "be", "an">>
MaxNesting == 3

AllBraces(J, q, k) == \A d \in 0..k : J[q + d] = RB

\* the position of the last brace of the match that starts at p, or 0
GroupEndAt(first, k) == IF first = 0 THEN 0 ELSE first + k
GroupEnd(J, p, k) == GroupEndAt(Least({q \in (p + 3)..(Len(J) - k) : AllBraces(J, q, k)}), k)

\* n_open == n_close, and never n_close > n_open
Opened(G, p) == Cardinality({q \in 1..p : G[q] = LB})
Closed(G, p) == Cardinality({q \in 1..p : G[q] = RB})
BracesOk(G) ==
  /\ Opened(G, Len(G)) = Closed(G, Len(G))
  /\ \A p \in DOMAIN G : Closed(G, p) <= Opened(G, p)

StartsWord(J, p, word) ==
  /\ p + 2 <= Len(J) /\ IsKey(J[p]) /\ J[p].v = word /\ J[p].n = 0 /\ J[p + 1] = LB
  /\ (p = 1 \/ J[p - 1].k # "pre")

NoGroup == [s |-> 0, e |-> 0]

\* the last match of finditer whose group is balanced; the matches do not
\* overlap
RECURSIVE LastGroup(_, _, _, _, _)
LastGroupTo(J, word, k, p, last, e) ==
  LastGroup(J, word, k, e + 1,
            IF BracesOk(Slice(J, p + 2, e - 1)) THEN [s |-> p, e |-> e] ELSE last)

LastGroupAt(J, word, k, p, last) ==
  IF p = 0 THEN last ELSE LastGroupTo(J, word, k, p, last, GroupEnd(J, p, k))

LastGroup(J, word, k, from, last) ==
  LastGroupAt(J, word, k,
              Least({p \in from..Len(J) : StartsWord(J, p, word) /\ GroupEnd(J, p, k) # 0}), last)

\* '"' + word + ' ' + replace_by[1:]
Prefixed(word, G) ==
  IF G = << >> THEN <<PRE(word)>>
  ELSE IF IsKey(G[1]) THEN <<PRE(word)>> \o G
  ELSE IF IsLeafWord(G[1]) THEN <<PRE(word), Cut(G[1])>> \o Tail(G)
  ELSE <<PRE(word)>> \o Tail(G)

MergeGroup(J, word, g) ==
  IF g = NoGroup THEN J
  ELSE ReplaceAll(J, SubSeq(J, g.s, g.e), Prefixed(word, Slice(J, g.s + 2, g.e - 1)))

\* sJSON after the passes k.. of the word function_words[w] and of the words
\* after it
RECURSIVE MergeWords(_, _, _)
MergeNext(J, next, w, k) ==
  IF next = J THEN MergeWords(J, w, k + 1) ELSE MergeWords(next, w, k + 1)

MergeWords(J, w, k) ==
  IF w > Len(function_words) THEN J
  ELSE IF k > MaxNesting THEN MergeWords(J, w + 1, 0)
  ELSE MergeNext(J, MergeGroup(J, function_words[w], LastGroup(J, function_words[w], k, 1, NoGroup)), w, k)

clean_JSON(J) == MergeWords(DropDuplicates(DropBeforeBrace(StripBraces(J))), 1, 0)

\* make_unique_keys: every key "xyz": gets the running count of its last
\* word as a suffix; the counts start empty on every call: dKeys = {}

\* a bug: the counts are kept from the call before
KeptKeys(prev) == prev

FreshKeys(prev) == [c \in {} |-> 0]

KeyId(t) == <<t.k, t.v>>
Unnumbered(t) == IsKey(t) /\ t.n = 0
KeyCount(dKeys, id) == IF id \in DOMAIN dKeys THEN dKeys[id] ELSE 0

\* a bug of make_unique_keys: dKeys[key] is read and never written back
KeysNotCounted(J, p, id) == 1

\* the number of keys with the id `id` among the first p tokens
KeysBefore(J, p, id) == Cardinality({q \in 1..p : Unnumbered(J[q]) /\ KeyId(J[q]) = id})

NumberKeys(J, dKeys) ==
  [json |-> [p \in DOMAIN J |->
               IF Unnumbered(J[p])
               THEN [J[p] EXCEPT !.n = KeyCount(dKeys, KeyId(J[p])) + KeysBefore(J, p, KeyId(J[p]))]
               ELSE J[p]],
   dKeys |-> [id \in DOMAIN dKeys \cup {KeyId(J[q]) : q \in {r \in DOMAIN J : Unnumbered(J[r])}} |->
                KeyCount(dKeys, id) + KeysBefore(J, Len(J), id)]]

make_unique_keys(J, prev) == NumberKeys(J, FreshKeys(prev))

logicalForm2JSON(LF_in, prev) == make_unique_keys(clean_JSON(CharReplace(LF_in)), prev)

(***************************************************************************)
(* parsing(command, number_of_steps, dData) as a state machine: one action *)
(* for the normalisation, one per pass of the loop, one for the return.    *)
(***************************************************************************)
VARIABLES
  utterance,        \* the command as passed by the caller: a sequence of words
  number_of_steps,  \* the argument number_of_steps
  command,          \* the local `command`
  pc,               \* "start", "loop", "done" (returned LF), "raised" (an exception left the call)
  i,                \* the loop variable
  LF,               \* the local `LF`
  LF_old,           \* the local `LF_old`
  lfs,              \* the LF each pass so far returned
  used,             \* the parser each pass so far was given
  fed,              \* the text or LF each pass so far was given
  pass,             \* what the last pass did and left (see parse_command)
  call,             \* 1 for the first call of parsing in the process, 2 for the next
  json,             \* what logicalForm2JSON returned for LF and left, once it was called
  earlier,          \* the calls of parsing that are over: arguments and results
  debug,            \* whether the call is one of parsing_debug, and its dPlaceholders
  regex_file,       \* the text of regex.txt that make_lexicon reads
  prepositions_file,  \* the text of prepositions.txt
  dData,            \* the dictionary make_lexicon fills, as far as read_regex goes
  fallback,         \* the locals of the segmenting loop of parse_command, one iteration at a time
  scan              \* the locals of the while loop of text2placeholders, one round at a time

vars == <<utterance, number_of_steps, command, pc, i, LF, LF_old, lfs, used, fed, pass, call,
          json, earlier, debug, regex_file, prepositions_file, dData,
                 fallback, scan>>

Vocabulary == {"roger", "Southwest", "n578", "5", "uh", "the", "no", "Plugh", "xyzzy", "(", "a", "x5"}
CoreWords == {"roger", "Southwest", "n578", "the", "uh"}
RepeatWords == {"5", "uh"}

SeqsOver(S, lo, hi) == UNION {[1..n -> S] : n \in lo..hi}
Repeat(w, n) == [p \in 1..n |-> w]

\* the utterances of the check: every utterance of one or two words, the
\* utterances of CoreWords up to MaxLen words, the utterances with the
\* article "a" in the middle, and the runs of 4..MaxRepeat copies of one
\* word, alone or followed by "roger"
Utterances ==
  SeqsOver(Vocabulary, 1, 2) \cup SeqsOver(CoreWords, 3, MaxLen)
  \cup {<<x, "a", y>> : x, y \in {"roger", "the", "a"}}
  \cup {Repeat(w, n) \o tail : w \in RepeatWords, n \in 4..MaxRepeat, tail \in {<< >>, <<"roger">>}}

NoPass == [lf |-> << >>, exc |-> FALSE, stream |-> << >>, whole |-> FALSE, segs |-> << >>,
           accepted |-> << >>, lost |-> << >>, ncalls |-> 0,
           d1 |-> << >>, d2 |-> << >>, cnt |-> << >>]

NoJSON == [made |-> FALSE, json |-> << >>, dKeys |-> << >>]

NoDebug == [on |-> FALSE, dPlaceholders |-> << >>]

\* dData = {} before make_lexicon
NoData == [made |-> FALSE, raised |-> FALSE, regex_category |-> << >>,
           category_frequency |-> [c \in {} |-> 0], prepositions |-> << >>]

\* parse_command has not reached its segmenting loop
NoFallback == [pc |-> "none", parser |-> "", step |-> 0, stream |-> << >>, d1 |-> << >>, d2 |-> << >>,
               command_new |-> << >>, LF_final |-> << >>, accepted |-> << >>, iterations |-> 0]

\* text2placeholders has not been entered
NoRound == [regex |-> "", pos |-> 0, tok |-> [k |-> "", v |-> "", n |-> 0]]
NoScan == [pc |-> "none", new_command |-> << >>, cnt |-> [c \in {} |-> 0], d |-> << >>,
           count |-> 0, last |-> NoRound]

\* the process has called make_lexicon on the standard resources
Loaded ==
  /\ regex_file = StandardRegexFile /\ prepositions_file = StandardPrepositionsFile
  /\ dData = make_lexicon(StandardRegexFile, StandardPrepositionsFile)

Entry(u, n) ==
  /\ utterance = u /\ number_of_steps = n /\ command = u /\ pc = "start" /\ i = 0
  /\ LF = << >> /\ LF_old = << >> /\ lfs = << >> /\ used = << >> /\ fed = << >>
  /\ pass = NoPass /\ call = 1 /\ json = NoJSON /\ earlier = << >> /\ debug = NoDebug
  /\ Loaded /\ fallback = NoFallback /\ scan = NoScan

Init == \E u \in Utterances, n \in 1..MaxSteps : Entry(u, n)

\* command = command_normalization(command); LF_old = ''
Normalize ==
  /\ pc = "start" /\ ~debug.on
  /\ command' = command_normalization(command)
  /\ LF_old' = << >>
  /\ pc' = "loop"
  /\ UNCHANGED <<utterance, number_of_steps, i, LF, lfs, used, fed, pass, call, json, earlier,
                 debug, regex_file, prepositions_file, dData,
                 fallback, scan>>

\* a bug of the loop: the test is never true, the loop runs to the end
NeverConverged(lf, old) == FALSE

\* a bug of the loop: the test is inverted
Diverged(lf, old) == lf # old

\* if LF == LF_old: break
Converged(lf, old) == lf = old

\* parse_command of parsing_debug reached dPlaceholders[step] = command_new:
\* the placeholder conversions did not raise (they come before any parser call)
Recorded(r) == ~(r.exc /\ r.ncalls = 0)

\* the loop body after parse_command returned r (or raised)
AfterPass(parser, asFed, r) ==
  /\ pass' = r
  /\ used' = Append(used, parser)
  /\ fed' = Append(fed, asFed)
  /\ IF r.exc
     THEN pc' = "raised" /\ UNCHANGED <<i, LF, LF_old, lfs>>
     ELSE /\ LF' = r.lf
          /\ lfs' = Append(lfs, r.lf)
          /\ IF Converged(r.lf, LF_old)
             THEN pc' = "done" /\ UNCHANGED <<i, LF_old>>                \* break
             ELSE pc' = "loop" /\ i' = i + 1 /\ LF_old' = r.lf
  /\ debug' = IF debug.on /\ Recorded(r)
              THEN [debug EXCEPT !.dPlaceholders = DictPut(@, i, r.stream)]
              ELSE debug
  /\ UNCHANGED <<utterance, number_of_steps, command, call, json, earlier, regex_file, prepositions_file, dData,
                 fallback, scan>>

\* a bug of the loop: every pass is given the unfiltered parser
PassUnfiltered(parser, input, asFed) ==
  AfterPass("command_parser", asFed, parse_command("command_parser", input, i, pass))

\* one pass of the loop body with the parser and the input of the pass
Pass(parser, input, asFed) == AfterPass(parser, asFed, parse_command(parser, input, i, pass))

\* i == 0: LF = parse_command(command_parser, command, dData, i)
Stage0 ==
  /\ pc = "loop" /\ i = 0 /\ i < number_of_steps
  /\ Pass("command_parser", command, [p \in DOMAIN command |-> W(command[p])])

\* i >= 1: LF = parse_command(LF_parser, LF, dData, i)
StageN ==
  /\ pc = "loop" /\ i >= 1 /\ i < number_of_steps
  /\ Pass("LF_parser", LF, LF)

\* the range is exhausted: return LF
LoopExit ==
  /\ pc = "loop" /\ i = number_of_steps
  /\ pc' = "done"
  /\ UNCHANGED <<utterance, number_of_steps, command, i, LF, LF_old, lfs, used, fed, pass, call,
                 json, earlier, debug, regex_file, prepositions_file, dData,
                 fallback, scan>>

\* the caller passes the LF that parsing returned to logicalForm2JSON
ToJSON ==
  /\ pc = "done" /\ ~json.made
  /\ json' = [made |-> TRUE] @@ logicalForm2JSON(LF, json.dKeys)
  /\ UNCHANGED <<utterance, number_of_steps, command, pc, i, LF, LF_old, lfs, used, fed, pass, call,
                 earlier, debug, regex_file, prepositions_file, dData,
                 fallback, scan>>

Next == Normalize \/ Stage0 \/ StageN \/ LoopExit \/ ToJSON

Spec == Init /\ [][Next]_vars

\* A process that calls parsing a second time, with the same dData.  What
\* the first call left behind (pass, json.dKeys) is what the second finds.
CallUtterances ==
  {Repeat(w, n) : w \in {"uh", "roger"}, n \in 1..MaxLen}
  \cup {<<"the", "Southwest", "n578">>, <<"Southwest", "n578", "roger">>}

InitCalls == \E u \in CallUtterances, n \in 1..MaxSteps : Entry(u, n)

NewCall ==
  /\ pc \in {"done", "raised"} /\ call = 1
  /\ \E u \in CallUtterances, n \in 1..MaxSteps :
       /\ utterance' = u /\ number_of_steps' = n /\ command' = u
  /\ pc' = "start" /\ i' = 0
  /\ LF' = << >> /\ LF_old' = << >> /\ lfs' = << >> /\ used' = << >> /\ fed' = << >>
  /\ call' = call + 1
  /\ json' = [json EXCEPT !.made = FALSE]
  /\ earlier' = Append(earlier, [utterance |-> utterance, number_of_steps |-> number_of_steps,
                                 pc |-> pc, LF |-> LF, json |-> json, cnt |-> pass.cnt])
  /\ UNCHANGED <<pass, debug, regex_file, prepositions_file, dData,
                 fallback, scan>>

NextCalls == Normalize \/ Stage0 \/ StageN \/ LoopExit \/ ToJSON \/ NewCall

SpecCalls == InitCalls /\ [][NextCalls]_vars

\* parsing_debug(command, number_of_steps, dData, dPlaceholders), called
\* with an empty dPlaceholders: its own command_normalization, then the
\* loop of parsing, each pass leaving its placeholder stream.
DebugWords == {"a-plugh", "plugh-xyzzy", "roger", "uh", "the", "a", "n578"}

DebugUtterances == SeqsOver(DebugWords, 1, 2)

InitDebug ==
  \E u \in DebugUtterances, n \in 1..MaxSteps :
    /\ utterance = u /\ number_of_steps = n /\ command = u /\ pc = "start" /\ i = 0
    /\ LF = << >> /\ LF_old = << >> /\ lfs = << >> /\ used = << >> /\ fed = << >>
    /\ pass = NoPass /\ call = 1 /\ json = NoJSON /\ earlier = << >>
    /\ debug = [on |-> TRUE, dPlaceholders |-> << >>]
    /\ Loaded /\ fallback = NoFallback /\ scan = NoScan

\* command = command_normalization(command); LF_old = ''
NormalizeDebug ==
  /\ pc = "start" /\ debug.on
  /\ command' = command_normalization_debug(command)
  /\ LF_old' = << >>
  /\ pc' = "loop"
  /\ UNCHANGED <<utterance, number_of_steps, i, LF, lfs, used, fed, pass, call, json, earlier,
                 debug, regex_file, prepositions_file, dData,
                 fallback, scan>>

NextDebug == NormalizeDebug \/ Stage0 \/ StageN \/ LoopExit

SpecDebug == InitDebug /\ [][NextDebug]_vars

\* A process that calls make_lexicon on a regex.txt of its own: lines that
\* open a category, patterns (one of them in two spellings), a blank line.
FileLines ==
  {CategoryLine("ACKNOWLEDGE"), CategoryLine("Acknowledge"), CategoryLine("context"),
   PatternLine("\\broger\\b"), PatternLine("\\bRoger\\b"), PatternLine("\\buh\\b"), PatternLine("")}

\* the standard file with up to MaxFileLines more lines
RegexFiles == {StandardRegexFile \o more : more \in SeqsOver(FileLines, 0, MaxFileLines)}

PrepositionsFiles == {<<"the">>, << >>, <<"the", "of">>, <<"the", "", "The">>}

InitLoad ==
  /\ regex_file \in RegexFiles /\ prepositions_file \in PrepositionsFiles /\ dData = NoData
  /\ utterance = << >> /\ number_of_steps = 1 /\ command = << >> /\ pc = "start" /\ i = 0
  /\ LF = << >> /\ LF_old = << >> /\ lfs = << >> /\ used = << >> /\ fed = << >>
  /\ pass = NoPass /\ call = 1 /\ json = NoJSON /\ earlier = << >> /\ debug = NoDebug
  /\ fallback = NoFallback /\ scan = NoScan

\* make_lexicon(dData)
MakeLexicon ==
  /\ ~dData.made
  /\ dData' = make_lexicon(regex_file, prepositions_file)
  /\ UNCHANGED <<utterance, number_of_steps, command, pc, i, LF, LF_old, lfs, used, fed, pass, call,
                 json, earlier, debug, regex_file, prepositions_file, fallback, scan>>

NextLoad == MakeLexicon

SpecLoad == InitLoad /\ [][NextLoad]_vars

(***************************************************************************)
(* The segmenting loop of parse_command, one iteration of                  *)
(* `while len(command_new) > 0` per step.  fallback holds the locals:      *)
(* command_new, LF_final, the segments accepted so far with the place of   *)
(* their first word in the stream, and the number of iterations begun.     *)
(***************************************************************************)
\* the else branch: the whole stream r.stream did not parse
EnterFallback(parser, step, r) ==
  [pc |-> "while", parser |-> parser, step |-> step, stream |-> r.stream, d1 |-> r.d1, d2 |-> r.d2,
   command_new |-> r.stream, LF_final |-> << >>, accepted |-> << >>, iterations |-> 0]

\* a bug of the loop: `if LF_replacement == '' and j == 0: command_new = ''`
\* is left out
AfterPrefixesKeep(f, t) ==
  IF t.exc THEN [f EXCEPT !.pc = "raised", !.iterations = @ + 1]
  ELSE IF t.j < 0 THEN [f EXCEPT !.iterations = @ + 1]
  ELSE [f EXCEPT !.LF_final = @ \o FinishSegment(t.lf, f.step),
                 !.accepted = Append(@, [pos |-> Len(f.stream) - Len(f.command_new) + 1,
                                         seg |-> SubSeq(f.command_new, 1, t.j + 1),
                                         lf |-> FinishSegment(t.lf, f.step)]),
                 !.command_new = Slice(f.command_new, t.j + 2, Len(f.command_new)),
                 !.iterations = @ + 1]

\* a bug of the loop: command_new = ' '.join(command_new_words[j:...]), the
\* last word of a segment of several words stays in the stream
AfterPrefixesOverlap(f, t) ==
  IF t.exc THEN [f EXCEPT !.pc = "raised", !.iterations = @ + 1]
  ELSE IF t.j < 0 THEN [f EXCEPT !.command_new = << >>, !.iterations = @ + 1]
  ELSE [f EXCEPT !.LF_final = @ \o FinishSegment(t.lf, f.step),
                 !.accepted = Append(@, [pos |-> Len(f.stream) - Len(f.command_new) + 1,
                                         seg |-> SubSeq(f.command_new, 1, t.j + 1),
                                         lf |-> FinishSegment(t.lf, f.step)]),
                 !.command_new = Slice(f.command_new, Max(t.j + 1, 2), Len(f.command_new)),
                 !.iterations = @ + 1]

\* the body of the while loop after the for loop over the prefixes gave t:
\* re.sub raised; or no prefix parsed, command_new = ''; or the prefix
\* command_new_words[0:j+1] parsed, its LF and '; ' go to LF_final and
\* command_new = ' '.join(command_new_words[j+1:])
AfterPrefixes(f, t) ==
  IF t.exc THEN [f EXCEPT !.pc = "raised", !.iterations = @ + 1]
  ELSE IF t.j < 0 THEN [f EXCEPT !.command_new = << >>, !.iterations = @ + 1]
  ELSE [f EXCEPT !.LF_final = @ \o FinishSegment(t.lf, f.step),
                 !.accepted = Append(@, [pos |-> Len(f.stream) - Len(f.command_new) + 1,
                                         seg |-> SubSeq(f.command_new, 1, t.j + 1),
                                         lf |-> FinishSegment(t.lf, f.step)]),
                 !.command_new = Slice(f.command_new, t.j + 2, Len(f.command_new)),
                 !.iterations = @ + 1]

\* the utterances whose stream goes through the loop
FallbackWords == {"roger", "n578", "the"}
FallbackUtterances ==
  SeqsOver(Vocabulary, 1, 2) \cup SeqsOver(FallbackWords, 3, MaxLen)
  \cup {Repeat(w, n) : w \in RepeatWords, n \in (MaxRepeat - 1)..MaxRepeat}

\* the pass of stage `step` on the utterance u (stage 1 on the LF of stage 0)
PassAt(u, step) ==
  IF step = 0 THEN parse_command("command_parser", command_normalization(u), 0, NoPass)
  ELSE parse_command("LF_parser", parse_command("command_parser", command_normalization(u), 0, NoPass).lf,
                     1, parse_command("command_parser", command_normalization(u), 0, NoPass))

InitFallback ==
  \E u \in FallbackUtterances, step \in {0, 1} :
    /\ utterance = u /\ number_of_steps = step + 1 /\ command = command_normalization(u)
    /\ pc = "loop" /\ i = step
    /\ LF = << >> /\ LF_old = << >> /\ lfs = << >> /\ used = << >> /\ fed = << >>
    /\ pass = NoPass /\ call = 1 /\ json = NoJSON /\ earlier = << >> /\ debug = NoDebug
    /\ Loaded /\ scan = NoScan
    /\ ~parse_command("command_parser", command_normalization(u), 0, NoPass).exc
    /\ LET r == PassAt(u, step)
       IN /\ ~r.whole /\ r.ncalls > 0
          /\ fallback = EnterFallback(IF step = 0 THEN "command_parser" ELSE "LF_parser", step, r)

\* one iteration of `while len(command_new) > 0`
Iterate ==
  /\ fallback.pc = "while" /\ NonEmptyString(fallback.command_new)
  /\ fallback' = AfterPrefixes(fallback,
                    TryPrefixes(fallback.parser, fallback.command_new, Len(fallback.command_new) - 1,
                                fallback.d1, fallback.d2))
  /\ UNCHANGED <<utterance, number_of_steps, command, pc, i, LF, LF_old, lfs, used, fed, pass, call,
                 json, earlier, debug, regex_file, prepositions_file, dData, scan>>

\* len(command_new) > 0 is false: return LF_final
LeaveFallback ==
  /\ fallback.pc = "while" /\ ~NonEmptyString(fallback.command_new)
  /\ fallback' = [fallback EXCEPT !.pc = "returned"]
  /\ UNCHANGED <<utterance, number_of_steps, command, pc, i, LF, LF_old, lfs, used, fed, pass, call,
                 json, earlier, debug, regex_file, prepositions_file, dData, scan>>

NextFallback == Iterate \/ LeaveFallback

SpecFallback == InitFallback /\ [][NextFallback]_vars

\* the loop is not held up: weak fairness of NextFallback, with its enabling
\* condition written out (in the loop either the test of `while` holds and
\* Iterate can be taken, or it fails and LeaveFallback can)
FairFallback ==
  SpecFallback /\ ([]<>(fallback.pc # "while") \/ []<><<NextFallback>>_vars)

(***************************************************************************)
(* The while loop of text2placeholders, one round per step, for a regex    *)
(* table that make_lexicon read from regex.txt.  scan holds the locals:    *)
(* new_command, dCategoryMaxPlaceholderNumber (cnt), dReplacement (d),     *)
(* count, and the match of the last round.  A pattern without \b matches   *)
(* inside a word, and inside a placeholder that an earlier round wrote:    *)
(* what stays of the word in front of the match is the token Glue (text    *)
(* with no space after it), the digits matched are the token Digits.       *)
(***************************************************************************)
Glue(v) == [k |-> "glue", v |-> v, n |-> 0]
Digits(n) == [k |-> "digits", v |-> "", n |-> n]

\* dData['regex_complexity'][regex] = len(clean_regex.split('\\'))
RegexComplexity(regex) ==
  CASE regex = "\\d+" -> 2
    [] regex \in {"\\bn\\d+[a-z]*\\b", "\\b\\d+\\b"} -> 4
    [] OTHER -> 3

\* a bug of the scan: the patterns are tried in the order of the table
TableOrder(table) == [j \in DOMAIN table |-> j]

\* sorted(dData['regex_complexity'], key=dData['regex_complexity'].get,
\* reverse=True): places of the table dRegexCategory, stable
ScanOrder(table) ==
  SortedBy(DOMAIN table, [j \in DOMAIN table |-> RegexComplexity(table[j].key)])

\* the lowercased words that a pattern \b...\b matches
WordHits(regex) == UNION {RegexTable[j].hits : j \in {q \in DOMAIN RegexTable : RegexTable[q].regex = regex}}

\* the first match of the pattern in the text of one token: [hit, front,
\* text] with front the text of the token before the match ('' when the
\* match starts the token) and text the matched span
MatchIn(regex, t) ==
  IF regex = "\\d+"
  THEN CASE t.k = "w" /\ t.v = "5" -> [hit |-> TRUE, front |-> "", text |-> t]
         [] t.k = "w" /\ t.v = "x5" -> [hit |-> TRUE, front |-> "x", text |-> Digits(5)]
         [] t.k = "w" /\ t.v = "n578" -> [hit |-> TRUE, front |-> "n", text |-> Digits(578)]
         [] t.k = "ph" -> [hit |-> TRUE, front |-> t.v, text |-> Digits(t.n)]
         [] OTHER -> [hit |-> FALSE, front |-> "", text |-> t]
  ELSE [hit |-> t.k = "w" /\ Lower(t.v) \in WordHits(regex), front |-> "", text |-> t]

\* p.finditer(new_command): the place of the token with the leftmost match, or 0
LeftmostMatch(buf, regex) == Least({p \in DOMAIN buf : MatchIn(regex, buf[p]).hit})

\* for pattern in sorted(...): the first pattern, from place k of the order
\* on, with a match in the buffer; 0 when none has one
RECURSIVE FirstApplicable(_, _, _, _)
FirstApplicable(buf, table, order, k) ==
  IF k > Len(order) THEN 0
  ELSE IF LeftmostMatch(buf, table[order[k]].key) > 0 THEN order[k]
  ELSE FirstApplicable(buf, table, order, k + 1)

\* the body of the for loops for the match of table[j] at place pos: the
\* counter of the category goes up, the matched span becomes the
\* placeholder category.lower() + str(id), dReplacement keeps the span
Replaced(f, table, j, pos) ==
  LET category == Lower(table[j].val)
      m == MatchIn(table[j].key, f.new_command[pos])
      category_id == PH(category, CounterOf(f.cnt, category) + 1)
  IN [f EXCEPT !.new_command = Slice(f.new_command, 1, pos - 1)
                                \o (IF m.front = "" THEN << >> ELSE <<Glue(m.front)>>)
                                \o <<category_id>>
                                \o Slice(f.new_command, pos + 1, Len(f.new_command)),
               !.cnt = CounterInc(f.cnt, category),
               !.d = DictPut(f.d, category_id, [m |-> f.count + 1, t |-> <<m.text>>]),
               !.count = f.count + 1,
               !.last = [regex |-> table[j].key, pos |-> pos, tok |-> f.new_command[pos]]]

\* the lines that follow the standard table in the regex.txt of the scan
ScanLines == {CategoryLine("INTNUMBER"), PatternLine("\\d+"), PatternLine("\\broger\\b")}
ScanRegexFiles == {StandardRegexFile \o more : more \in SeqsOver(ScanLines, 0, MaxFileLines - 1)}
ScanWords == {"roger", "Southwest", "5", "x5", "uh", "Plugh"}
ScanUtterances == SeqsOver(ScanWords, 1, 2)

\* text2placeholders(command, dData, dReplacement_1) is entered
InitScan ==
  \E u \in ScanUtterances :
    /\ utterance = u /\ number_of_steps = 1 /\ command = command_normalization(u)
    /\ pc = "loop" /\ i = 0
    /\ LF = << >> /\ LF_old = << >> /\ lfs = << >> /\ used = << >> /\ fed = << >>
    /\ pass = NoPass /\ call = 1 /\ json = NoJSON /\ earlier = << >> /\ debug = NoDebug
    /\ regex_file \in ScanRegexFiles /\ prepositions_file = StandardPrepositionsFile
    /\ dData = make_lexicon(regex_file, prepositions_file)
    /\ fallback = NoFallback
    /\ scan = [pc |-> "while", new_command |-> [p \in DOMAIN command |-> W(command[p])],
               cnt |-> [c \in {} |-> 0], d |-> << >>, count |-> 0, last |-> NoRound]

\* the place in the table of the pattern that this round applies, or 0
Applicable == FirstApplicable(scan.new_command, dData.regex_category, ScanOrder(dData.regex_category), 1)

\* a round of the while loop in which a pattern matches: new_command_ok = True
ScanReplace ==
  /\ scan.pc = "while" /\ scan.count < MaxRounds
  /\ Applicable > 0
  /\ scan' = Replaced(scan, dData.regex_category, Applicable,
                      LeftmostMatch(scan.new_command, dData.regex_category[Applicable].key))
  /\ UNCHANGED <<utterance, number_of_steps, command, pc, i, LF, LF_old, lfs, used, fed, pass, call,
                 json, earlier, debug, regex_file, prepositions_file, dData, fallback>>

\* a round in which no pattern matches: the loop is left, return new_command
ScanReturn ==
  /\ scan.pc = "while"
  /\ Applicable = 0
  /\ scan' = [scan EXCEPT !.pc = "returned"]
  /\ UNCHANGED <<utterance, number_of_steps, command, pc, i, LF, LF_old, lfs, used, fed, pass, call,
                 json, earlier, debug, regex_file, prepositions_file, dData, fallback>>

NextScan == ScanReplace \/ ScanReturn

SpecScan == InitScan /\ [][NextScan]_vars

TypeOK ==
  /\ pc \in {"start", "loop", "done", "raised"}
  /\ i \in 0..number_of_steps
  /\ Len(lfs) <= number_of_steps
  /\ call \in {1, 2} /\ Len(earlier) = call - 1
  /\ json.made \in BOOLEAN

(***************************************************************************)
(* The claims                                                              *)
(***************************************************************************)
\* C1: as soon as a stage returns the LF that the stage before it returned,
\* no further stage is run and that LF is the result of parsing, whatever
\* number_of_steps remains.  lfs is the history of the stages: two equal
\* neighbours are the last two entries, the call is over and LF is that LF.
C1_StopOnRepeat ==
  \A k \in 2..Len(lfs) :
    lfs[k] = lfs[k - 1] => k = Len(lfs) /\ pc = "done" /\ LF = lfs[k]

\* a stage repeated the LF of the stage before it with steps to spare
C1_Witness ==
  /\ Len(lfs) >= 2 /\ lfs[Len(lfs)] = lfs[Len(lfs) - 1] /\ lfs[Len(lfs)] # << >>
  /\ Len(lfs) < number_of_steps /\ pc = "done"

\* C2: parsing runs at most number_of_steps passes; pass 0 is given
\* command_parser and the normalised text, every later pass LF_parser and the
\* LF the pass before it returned.
C2_PassesAndParsers ==
  /\ Len(used) <= number_of_steps
  /\ Len(fed) = Len(used)
  /\ \A k \in DOMAIN used :
       IF k = 1
       THEN /\ used[k] = "command_parser"
            /\ fed[k] = [p \in DOMAIN command_normalization(utterance) |->
                           W(command_normalization(utterance)[p])]
       ELSE /\ used[k] = "LF_parser"
            /\ k - 1 \in DOMAIN lfs /\ fed[k] = lfs[k - 1]

\* three passes were run on an utterance that the normalisation changes
C2_Witness ==
  /\ Len(used) = 3 /\ pc = "done"
  /\ command_normalization(utterance) # utterance

\* lf_0 .. lf_n of an utterance: what the stages return when they are run
\* one after the other, as the records of parse_command (entry k + 1 is
\* stage k; the sequence ends with n stages after stage 0, with a stage that
\* raised or with a stage that returned LF_old: the LF of the stage before
\* it, the empty LF for stage 0)
NextStage(prev, k) == parse_command("LF_parser", prev.lf, k, prev)

LastStage(recs, k) == recs[k].exc \/ recs[k].lf = (IF k = 1 THEN << >> ELSE recs[k - 1].lf)

RECURSIVE Extend(_, _, _)
Extend(recs, k, n) ==
  IF k > n \/ LastStage(recs, k) THEN recs
  ELSE Extend(Append(recs, NextStage(recs[k], k)), k + 1, n)

StagesOf(u, n) ==
  Extend(<<parse_command("command_parser", command_normalization(u), 0, NoPass)>>, 1, n)

\* stage k returned the LF of stage k - 1
StableAt(recs, k) == ~recs[k + 1].exc /\ recs[k + 1].lf = recs[k].lf

ReturnsStable(recs) ==
  \A k \in 1..(Len(recs) - 1) : StableAt(recs, k) => pc = "done" /\ LF = recs[k + 1].lf

\* C3: stability.  When stage k of an utterance returns the LF of stage
\* k - 1, parsing with any number_of_steps >= k + 1 returns that LF (looked
\* at when parsing is over, before its caller goes on with the LF).
C3_Stability ==
  (pc \in {"done", "raised"} /\ ~json.made) =>
    ReturnsStable(StagesOf(utterance, number_of_steps - 1))

StableEarly(recs) == \E k \in 1..(Len(recs) - 1) : StableAt(recs, k)

\* a call with more steps allowed than the stage at which the LF repeated
C3_Witness ==
  /\ pc = "done" /\ LF # << >> /\ number_of_steps >= 3
  /\ StableEarly(StagesOf(utterance, number_of_steps - 2))

\* as many '(' as ')' and no prefix with more ')' than '('
RECURSIVE BalancedFrom(_, _, _)
BalancedFrom(lf, p, depth) ==
  IF p > Len(lf) THEN depth = 0
  ELSE IF lf[p] = LP THEN BalancedFrom(lf, p + 1, depth + 1)
  ELSE IF lf[p] = RP THEN depth > 0 /\ BalancedFrom(lf, p + 1, depth - 1)
  ELSE BalancedFrom(lf, p + 1, depth)

Balanced(lf) == BalancedFrom(lf, 1, 0)

\* C4: every LF a stage of parsing returns is bracket-balanced.
C4_BracketBalance == \A k \in DOMAIN lfs : Balanced(lfs[k])

\* a later stage returned a new LF with heads nested three deep
C4_Witness ==
  \E k \in 2..Len(lfs) :
    /\ lfs[k] # lfs[k - 1]
    /\ \E p \in DOMAIN lfs[k] :
         p + 4 <= Len(lfs[k]) /\ IsHead(lfs[k][p]) /\ IsHead(lfs[k][p + 2]) /\ IsHead(lfs[k][p + 4])

\* the number of top-level terms of an LF: each is followed by '; '
NumTerms(lf) == Cardinality({p \in DOMAIN lf : lf[p] = SEMI})

\* C5: monotone compression.  The LF of a stage has at most as many
\* top-level terms as the LF of the stage before it.
C5_MonotoneCompression ==
  \A k \in 2..Len(lfs) : NumTerms(lfs[k]) <= NumTerms(lfs[k - 1])

\* a stage that went through the segmenting fallback and one that parsed
\* the whole stream into fewer terms than it was given
C5_Witness ==
  /\ Len(lfs) >= 2 /\ pass.whole
  /\ NumTerms(lfs[Len(lfs)]) >= 1
  /\ NumTerms(lfs[Len(lfs)]) < NumTerms(lfs[Len(lfs) - 1])

\* a later stage used the segmenting fallback and kept several terms
C5_WitnessFallback ==
  /\ Len(lfs) >= 2 /\ Len(used) = Len(lfs) /\ ~pass.whole
  /\ NumTerms(lfs[Len(lfs)]) >= 2

\* the top-level term of the LF given to the last pass that stands at place
\* pos of its placeholder stream
TermAt(pos) == SplitItems(fed[Len(fed)], << >>)[pos]

HasCategoryHead(item) == \E p \in DOMAIN item : item[p].k = "H"

\* C6: a stage i >= 1 adds no category head.  A top-level term of lf_{i-1}
\* with a category head that is parsed alone, not joined with a neighbour,
\* is in lf_i as it was.
C6_NoAddedHead ==
  (Len(used) >= 2 /\ ~pass.exc) =>
    \A j \in DOMAIN pass.accepted :
      (Len(SplitWords(pass.accepted[j].seg)) = 1 /\ HasCategoryHead(TermAt(pass.accepted[j].pos)))
        => pass.accepted[j].lf = TermAt(pass.accepted[j].pos) \o <<SEMI>>

\* what a call of parsing returns in a process that made no call before:
\* the stages are run from empty counters until one repeats the LF of the
\* stage before it or number_of_steps stages are done
RECURSIVE ReturnedFrom(_, _, _)
ReturnedFrom(recs, k, old) ==
  IF recs[k].exc THEN [raised |-> TRUE, lf |-> << >>]
  ELSE IF recs[k].lf = old \/ k = Len(recs) THEN [raised |-> FALSE, lf |-> recs[k].lf]
  ELSE ReturnedFrom(recs, k + 1, recs[k].lf)

FreshOutcome(u, n) == ReturnedFrom(StagesOf(u, n - 1), 1, << >>)

AsOutcome(o) == (pc = "raised" => o.raised) /\ (pc = "done" => ~o.raised /\ LF = o.lf)

SameArguments(e) == e.utterance = utterance /\ e.number_of_steps = number_of_steps

\* C7: determinism.  For a fixed dData a call of parsing returns what an
\* earlier call with the same utterance and number_of_steps returned, and
\* what it returns in a process that made no call before; logicalForm2JSON
\* returns for an LF the JSON it returned for an equal LF before.
C7_Determinism ==
  /\ (pc \in {"done", "raised"} /\ ~json.made)
       => AsOutcome(FreshOutcome(utterance, number_of_steps))
  /\ \A e \in DOMAIN earlier :
       /\ (pc \in {"done", "raised"} /\ SameArguments(earlier[e]))
            => earlier[e].pc = pc /\ earlier[e].LF = LF
       /\ (json.made /\ earlier[e].json.made /\ earlier[e].LF = LF)
            => json.json = earlier[e].json.json

\* a second call with the arguments of the first, which had left counters
\* and keys behind, returned an LF with several terms and it was converted
C7_Witness ==
  /\ call = 2 /\ pc = "done" /\ json.made /\ NumTerms(LF) >= 2
  /\ SameArguments(earlier[1]) /\ earlier[1].json.made
  /\ earlier[1].cnt # << >> /\ earlier[1].json.dKeys # << >>

\* C8: parsing returns an LF and raises no exception, for every utterance
\* and every number_of_steps >= 1.
C8_NoException == pc # "raised"

\* C9: when the 1-token prefix does not parse, only that token is dropped:
\* no token discarded after it would have parsed as a segment of its own.
C9_RestStillProcessed ==
  \A p \in DOMAIN pass.lost :
    parse_segment(Len(used) >= 2, <<pass.lost[p]>>, maxExpansion, pass.d1, pass.d2).lf = << >>

\* C10: no candidate segment of the segmenting fallback has more than 7
\* tokens.
C10_SegmentLength ==
  \A j \in DOMAIN pass.segs : Len(SplitWords(pass.segs[j])) <= max_segment_length

\* the indices of the placeholders of category c that the last pass made
\* (the keys of its dReplacement_1)
EmittedFor(c) == {pass.d1[j].key.n : j \in {q \in DOMAIN pass.d1 : pass.d1[q].key.v = c}}

EmittedCategories == {pass.d1[j].key.v : j \in DOMAIN pass.d1}

\* C11: cap ceiling.  The placeholders a pass makes for a category C are
\* C1..Ck for some k that is at most the cap of C: the indices are
\* contiguous from 1 and none is above placeholder_number(C).
C11_CapCeiling ==
  \A c \in EmittedCategories :
    \E k \in 1..placeholder_number(c) : EmittedFor(c) = 1..k

\* the part of C11 that the code keeps: the indices are contiguous from 1
C11_Contiguous ==
  \A c \in EmittedCategories : EmittedFor(c) = 1..Cardinality(EmittedFor(c))

\* a token of the closed vocabulary of the stream: a placeholder of the
\* lexicon (index within the cap), an unknown slot X1..X12, a preposition
InClosure(t) ==
  \/ IsLexPlaceholder(t)
  \/ t.k = "X" /\ t.n \in 1..NumUnknownSlots
  \/ t.k = "w" /\ t.v \in prepositions

\* C12: placeholder closure.  The stream that stage 0 hands to the parser
\* has placeholders within their caps, unknown slots X1..X12 and
\* prepositions, and nothing else: no raw word is left in it.
C12_PlaceholderClosure ==
  (Len(used) = 1 /\ ~pass.exc) => \A p \in DOMAIN pass.stream : InClosure(pass.stream[p])

\* The grammar of a JSON object over the tokens of a JSON text.  A quote
\* opens a string when it follows a key, and closes one otherwise; what is
\* no brace, separator, key, prefix of a key or quote is text.
JSONClass(J, p) ==
  CASE J[p] = LB -> "lb"
    [] J[p] = RB -> "rb"
    [] IsSeparator(J[p]) -> "sep"
    [] IsKey(J[p]) -> "key"
    [] J[p].k = "pre" -> "pre"
    [] J[p] = JQ -> (IF p > 1 /\ IsKey(J[p - 1]) THEN "open" ELSE "close")
    [] OTHER -> "text"

\* what may stand next to what: an object is `{` members `}`, its members
\* are separated by a comma, a member is a key and a value, a value is a
\* string or an object
JSONNext ==
  { <<"lb", "key">>, <<"lb", "pre">>, <<"lb", "rb">>,
    <<"pre", "key">>, <<"key", "open">>, <<"key", "lb">>,
    <<"open", "text">>, <<"open", "close">>, <<"text", "text">>, <<"text", "close">>,
    <<"close", "sep">>, <<"close", "rb">>, <<"rb", "sep">>, <<"rb", "rb">>,
    <<"sep", "key">>, <<"sep", "pre">> }

\* a strict JSON parser accepts the text: one object, its braces matched
ValidJSON(J) ==
  /\ Len(J) >= 2 /\ J[1] = LB /\ J[Len(J)] = RB
  /\ \A p \in 1..(Len(J) - 1) :
       /\ <<JSONClass(J, p), JSONClass(J, p + 1)>> \in JSONNext
       /\ Opened(J, p) > Closed(J, p)
  /\ Opened(J, Len(J)) = Closed(J, Len(J))

\* C13: for every LF that parsing returns, logicalForm2JSON returns valid
\* JSON: the braces are balanced, every member of an object is a key with
\* a value, and no comma stands before a closing brace.
C13_ValidJSON == json.made => ValidJSON(json.json)

KeyPositions(J) == {p \in DOMAIN J : IsKey(J[p])}

\* the text of the key at p without its suffix: the function word before it,
\* if it has one, and its name as it is written
FullKey(J, p) == <<IF p > 1 /\ J[p - 1].k = "pre" THEN J[p - 1].v ELSE "", J[p].k, J[p].v>>

\* C14: after logicalForm2JSON no two keys are the same string: every key
\* has a suffix, and two occurrences of a key have different suffixes.
C14_UniqueKeys ==
  json.made =>
    \A p \in KeyPositions(json.json) :
      /\ json.json[p].n >= 1
      /\ \A q \in KeyPositions(json.json) \ {p} :
           FullKey(json.json, q) = FullKey(json.json, p) => json.json[q].n # json.json[p].n

\* a JSON text in which a key occurs twice, the second time in the object
\* that is the value of the first
C14_Witness ==
  /\ json.made /\ ValidJSON(json.json)
  /\ \E p \in KeyPositions(json.json) : \E q \in KeyPositions(json.json) :
       /\ q > p /\ json.json[p + 1] = LB
       /\ Opened(json.json, q) - Closed(json.json, q) > Opened(json.json, p) - Closed(json.json, p)
       /\ FullKey(json.json, q) = FullKey(json.json, p)

\* C15: the suffix of a key counts the occurrences of the same full key up
\* to it: a key with a function word before it (`"the runway":`) is counted
\* apart from the key without one (`"runway":`).
C15_OwnCounter ==
  json.made =>
    \A p \in KeyPositions(json.json) :
      json.json[p].n =
        Cardinality({q \in KeyPositions(json.json) :
                       q <= p /\ FullKey(json.json, q) = FullKey(json.json, p)})

\* C16: parsing_debug returns for every utterance, hyphenated words
\* included, and every number_of_steps the LF that parsing returns (and
\* raises where parsing raises).
C16_DebugSameLF ==
  (debug.on /\ pc \in {"done", "raised"}) => AsOutcome(FreshOutcome(utterance, number_of_steps))

\* what C16 says besides: each pass that reached the parser left its
\* placeholder stream in dPlaceholders under its step
C16_StreamsRecorded ==
  debug.on =>
    /\ Len(debug.dPlaceholders) <= Len(used)
    /\ (Len(used) > 0 /\ Recorded(pass)) =>
          /\ DictHas(debug.dPlaceholders, Len(used) - 1)
          /\ DictGet(debug.dPlaceholders, Len(used) - 1) = pass.stream

\* the category a pattern line p of the file stands under
RECURSIVE CategoryAt(_, _)
CategoryAt(file, p) ==
  IF p = 0 THEN "" ELSE IF file[p].head THEN Upper(file[p].text) ELSE CategoryAt(file, p - 1)

IsPatternAt(file, p) == ~file[p].head /\ file[p].text # ""

\* the same pattern string stands under two different categories
DuplicatePattern(file) ==
  \E p \in DOMAIN file : \E q \in DOMAIN file :
    /\ p < q /\ IsPatternAt(file, p) /\ IsPatternAt(file, q)
    /\ file[p].text = file[q].text
    /\ CategoryAt(file, p) # CategoryAt(file, q)

\* C17: loading a regex table in which the same pattern string stands
\* under two different categories fails: make_lexicon raises, it returns
\* no tables in which one of the two categories has won.
C17_DuplicateRaises ==
  (dData.made /\ DuplicatePattern(regex_file)) => dData.raised

\* the input of the pass that ran last
LastInput == IF Len(used) = 1 THEN command ELSE lfs[Len(used) - 1]

\* C18: frame.  A call of parsing leaves dData as make_lexicon made it, and
\* every pass starts with empty replacement maps and empty placeholder
\* counters: what a pass does and leaves is what it would do and leave after
\* no pass at all, whatever the passes and the calls before it left.
C18_Frame ==
  /\ Loaded
  /\ (Len(used) > 0 /\ ~json.made) =>
       pass = parse_command(used[Len(used)], LastInput, Len(used) - 1, NoPass)

\* a pass of a second call that numbers placeholders, after a first call
\* that left counters and replacements
C18_Witness ==
  /\ call = 2 /\ Len(used) > 0
  /\ DOMAIN earlier[1].cnt # {}
  /\ DOMAIN pass.cnt # {} /\ pass.d1 # << >>

\* the LF is a single term _C_(*s*); with C a category and s words
SingleTerm(lf) ==
  /\ Len(lf) >= 7
  /\ lf[1].k = "H" /\ lf[1].v \in Categories
  /\ lf[2] = LP /\ lf[3] = STAR
  /\ \A p \in 4..(Len(lf) - 3) : lf[p].k = "w"
  /\ lf[Len(lf) - 2] = STAR /\ lf[Len(lf) - 1] = RP /\ lf[Len(lf)] = SEMI

C20_NoIsLexiconToken ==
  (Len(used) = 1 /\ ~pass.exc /\ command # << >> /\ command[1] = "no") =>
    /\ pass.stream # << >> /\ pass.stream[1] = W("no")
    /\ pass.lf # << >> /\ pass.lf[1] = HL("no")

\* regex.txt with one more pattern, under a category of its own
WithNewCategory(file, category, regex) == file \o <<CategoryLine(category), PatternLine(regex)>>

NewCategories == {"RUNWAY", "NAVAID"}
NewPattern == "\\bfinal\\b"

\* the rules that one more category brings: three of _context_ and one of
\* `and`, one for each of its placeholders, one for each preposition
RulesOfCategory(category) ==
  4 + placeholder_number(Lower(category)) + Len(dData.prepositions)

\* C21 as stated: one pattern under a new category adds exactly cap(C)
\* rules to the lexicon.
C21_AddsCapRules ==
  dData.made =>
    \A c \in NewCategories :
      Len(lex_no_filter(make_lexicon(WithNewCategory(regex_file, c, NewPattern), prepositions_file)))
        = Len(lex_no_filter(dData)) + placeholder_number(Lower(c))

\* C21, amended: one pattern under a new category C adds cap(C) + 4 + the
\* number of prepositions rules to the lexicon without filter and to the
\* lexicon with filter, and leaves the rules that were there.
C21_AddsCategoryRules ==
  dData.made =>
    \A c \in NewCategories :
      LET more == make_lexicon(WithNewCategory(regex_file, c, NewPattern), prepositions_file)
          old_rules == lex_no_filter(dData)
          new_rules == lex_no_filter(more)
      IN /\ Len(new_rules) = Len(old_rules) + RulesOfCategory(c)
         /\ Len(lex_with_filter(more)) = Len(lex_with_filter(dData)) + RulesOfCategory(c)
         /\ \A r \in DOMAIN old_rules : \E q \in DOMAIN new_rules : new_rules[q] = old_rules[r]

\* a lexicon was made of a table with a pattern moved to another category
\* and of a list with a repeated preposition
C21_Witness ==
  /\ dData.made /\ DuplicatePattern(regex_file)
  /\ Len(dData.prepositions) = 2 /\ dData.prepositions[1] = dData.prepositions[2]
  /\ Len(lex_no_filter(dData)) > Len(lex_with_filter(dData))

\* the segments the last pass handed to parse_segment: the whole stream,
\* then the candidate prefixes of the segmenting fallback
Candidates == IF pass.ncalls = 0 THEN << >> ELSE <<pass.stream>> \o pass.segs

\* the parser of the last pass filters categories from the second pass on
LastFilter == Len(used) >= 2

\* C22: parse_segment calls the parser at most maxExpansions + 1 times;
\* the k-th call is on the segment prefixed by k-1 copies of _context_;
\* every call but the last found no parse, the loop stops short of
\* maxExpansions + 1 calls only on a parse, and the result is '' only if
\* no call found a parse.
C22_ExpansionProtocol ==
  ~json.made =>
    /\ pass.ncalls <= (maxExpansion + 1) * Len(Candidates)
    /\ \A s \in DOMAIN Candidates :
         LET words == SplitWords(Candidates[s])
             a == Attempts(LastFilter, words, 0, maxExpansion)
             r == parse_segment(LastFilter, Candidates[s], maxExpansion, pass.d1, pass.d2)
         IN /\ Len(a.calls) \in 1..(maxExpansion + 1)
            /\ r.calls = a.calls
            /\ \A k \in DOMAIN a.calls : a.calls[k] = Repeat(CTX, k - 1) \o words
            /\ \A k \in 1..(Len(a.calls) - 1) : Parses(a.calls[k], LastFilter) = {}
            /\ a.parses = Parses(a.calls[Len(a.calls)], LastFilter)
            /\ Len(a.calls) < maxExpansion + 1 => a.parses # {}
            /\ (r.lf = << >> /\ ~r.exc) =>
                 \A k \in DOMAIN a.calls : Parses(a.calls[k], LastFilter) = {}

\* a pass whose whole stream parsed only with _context_ in front, on the
\* second call
C22_Witness ==
  /\ ~json.made /\ pass.whole /\ pass.ncalls = maxExpansion + 1
  /\ Parses(SplitWords(pass.stream), LastFilter) = {}
  /\ Parses(<<CTX>> \o SplitWords(pass.stream), LastFilter) # {}

\* a pass with a candidate segment that no call parsed
C22_WitnessNone ==
  /\ ~json.made /\ pass.ncalls > maxExpansion + 1
  /\ \E s \in DOMAIN Candidates :
       parse_segment(LastFilter, Candidates[s], maxExpansion, pass.d1, pass.d2).lf = << >>

\* the words of the stream that the accepted segments cover
Covered == Len(Concat([k \in DOMAIN fallback.accepted |-> fallback.accepted[k].seg]))

\* an iteration of the loop was taken and the loop goes on
Iterated == fallback'.iterations = fallback.iterations + 1 /\ fallback'.pc = "while"

\* C23: the segmenting loop ends for every stream, also one with empty
\* words: an iteration leaves a proper suffix of command_new (it takes at
\* least one word from the front, or all of them), so the loop never begins
\* more iterations than the stream has words, and it is left.
C23_Terminates ==
  /\ [](fallback.iterations <= Len(fallback.stream))
  /\ [][Iterated =>
          \E k \in 1..Len(fallback.command_new) :
            fallback'.command_new = Slice(fallback.command_new, k + 1, Len(fallback.command_new))]_vars
  /\ <>(fallback.pc \in {"returned", "raised"})

\* the loop was left after two or more iterations on a stream with an empty
\* word
C23_Witness ==
  /\ fallback.pc = "returned" /\ fallback.iterations >= 2
  /\ \E p \in DOMAIN fallback.stream : fallback.stream[p] = EMPTY

\* parse_segment of the loop on the words seg: its LF, '' when none parsed
SegmentParse(seg) ==
  parse_segment(fallback.parser = "LF_parser", seg, maxExpansion, fallback.d1, fallback.d2).lf

\* the words of the stream from place pos on, n of them
StreamFrom(pos, n) == SubSeq(fallback.stream, pos, pos + n - 1)

C25_ReplacedOnce ==
  /\ scan.count <= Len(command)
  /\ scan.count > 0 => scan.last.tok.k = "w"

\* the places of the table whose pattern has a match in the buffer
Matching(buf) ==
  {j \in DOMAIN dData.regex_category : LeftmostMatch(buf, dData.regex_category[j].key) > 0}

\* the place in the table of the pattern that the last round applied
PlaceOf(regex) == CHOOSE j \in DOMAIN dData.regex_category : dData.regex_category[j].key = regex

\* C26: every round that replaces applies a pattern that matches the
\* buffer and has the highest complexity of the patterns that match (of
\* those with this complexity the first of the table); it replaces the
\* leftmost match of this pattern by the next placeholder of the category of
\* the pattern and leaves the rest of the buffer as it was.
C26_HighestFirst ==
  [][scan'.count = scan.count + 1 =>
       LET j == PlaceOf(scan'.last.regex)
           regex == dData.regex_category[j].key
           category == Lower(dData.regex_category[j].val)
           pos == scan'.last.pos
           grown == Len(scan'.new_command) - Len(scan.new_command)
       IN /\ j \in Matching(scan.new_command)
          /\ \A q \in Matching(scan.new_command) :
               \/ RegexComplexity(dData.regex_category[q].key) < RegexComplexity(regex)
               \/ RegexComplexity(dData.regex_category[q].key) = RegexComplexity(regex) /\ j <= q
          /\ MatchIn(regex, scan.new_command[pos]).hit
          /\ \A p \in 1..(pos - 1) : ~MatchIn(regex, scan.new_command[p]).hit
          /\ grown \in {0, 1}
          /\ scan'.new_command[pos + grown] = PH(category, CounterOf(scan.cnt, category) + 1)
          /\ \A p \in 1..(pos - 1) : scan'.new_command[p] = scan.new_command[p]
          /\ \A p \in (pos + 1)..Len(scan.new_command) :
               scan'.new_command[p + grown] = scan.new_command[p]]_vars

\* the first round replaced the second word while the first word has a
\* match of a pattern of the same complexity that comes later in the table
C26_Witness ==
  /\ scan.count = 1 /\ scan.last.pos = 2
  /\ \E q \in Matching(scan.new_command) :
       /\ q > PlaceOf(scan.last.regex)
       /\ RegexComplexity(dData.regex_category[q].key) = RegexComplexity(scan.last.regex)
       /\ LeftmostMatch(scan.new_command, dData.regex_category[q].key) = 1

\* a round applied the pattern of the lowest complexity after a round that
\* applied one of a higher complexity
C26_WitnessLower ==
  /\ scan.count >= 2 /\ scan.last.regex = "\\d+"
  /\ \E x \in DOMAIN scan.d : scan.d[x].key.v # Lower(dData.regex_category[PlaceOf("\\d+")].val)

\* the non-empty terms of the LF that the last pass was given
Terms == SplitItems(fed[Len(fed)], << >>)

\* the places of a term with a function head that is not an all-lowercase
\* keyword, or is `context`
NamedHeads(term) ==
  {p \in 1..(Len(term) - 1) :
     IsHead(term[p]) /\ term[p + 1] = LP /\ (term[p].k = "H" \/ HasContext(term[p]))}

\* the category the claim gives a term: the lowercased name of the first
\* such head; `context` for a term that is all lower case
HeadCategory(term) ==
  IF AllLower(term) THEN "context"
  ELSE IF NamedHeads(term) = {} THEN ""
  ELSE term[Least(NamedHeads(term))].v

\* C27: LF2placeholders emits one placeholder per non-empty term, in the
\* order of the terms; the placeholder of a term is the lowercased name of
\* its first head that is not an all-lowercase keyword (or `context`)
\* followed by the number of terms of this category so far, never text of
\* an argument; the map sends the placeholder to the term.
C27_HeadCategory ==
  (Len(used) >= 2 /\ ~json.made) =>
    LET stream == SplitWords(pass.stream)
    IN /\ Len(stream) = Len(Terms)
       /\ \A k \in DOMAIN stream :
            /\ stream[k].k = "ph"
            /\ stream[k].v = HeadCategory(Terms[k])
            /\ stream[k].n = Cardinality({q \in 1..k : HeadCategory(Terms[q]) = HeadCategory(Terms[k])})
            /\ DictHas(pass.d1, stream[k])
            /\ DictGet(pass.d1, stream[k]).t
                 \in {Terms[k], <<HL("context"), LP>> \o Terms[k] \o <<RP>>}

\* the place of the ')' that closes the '(' at place p of an LF, 0 when
\* there is none
RECURSIVE CloseFrom(_, _, _)
CloseFrom(lf, q, depth) ==
  IF q > Len(lf) THEN 0
  ELSE IF lf[q] = RP THEN (IF depth = 1 THEN q ELSE CloseFrom(lf, q + 1, depth - 1))
  ELSE IF lf[q] = LP THEN CloseFrom(lf, q + 1, depth + 1)
  ELSE CloseFrom(lf, q + 1, depth)

Close(lf, p) == CloseFrom(lf, p + 1, 1)

\* the places of an LF where F(F(args)) starts: a head whose one argument
\* is a term with the same head
Wrappers(lf) ==
  {p \in DOMAIN lf :
     /\ SameHeadAt(lf, p, p + 2)
     /\ Close(lf, p + 3) > 0 /\ Close(lf, p + 1) = Close(lf, p + 3) + 1}

\* the LF without the outer head, its '(' and its ')' of the wrappers D
Unwrapped(lf, D) ==
  LET gone == D \cup {p + 1 : p \in D} \cup {Close(lf, p + 1) : p \in D}
  IN SelectSeq([p \in DOMAIN lf |-> IF p \in gone THEN EMPTY ELSE lf[p]], LAMBDA t : t # EMPTY)

\* what the third block of clean_LF is given for the LF of a segment
BeforeThird(seg) ==
  Pattern(Pattern(StripStars(UnwrapContext(
    parse_segment(TRUE, seg, maxExpansion, pass.d1, pass.d2).lf)), 1), 2)

\* C28: the third block of clean_LF turns F(F(args)) into F(args) only
\* where F(args) is one balanced term, the only argument of the outer F:
\* what it returns is the LF it was given without some of these outer
\* heads and their brackets, so every head that stays keeps its arguments
\* and the brackets stay balanced; a match that spans more changes nothing.
C28_OneTermRewrite ==
  (Len(used) >= 2 /\ ~pass.exc /\ ~json.made) =>
    \A k \in DOMAIN pass.accepted :
      LET x == BeforeThird(pass.accepted[k].seg)
          y == Pattern(x, 3)
      IN /\ pass.accepted[k].lf = y \o <<SEMI>>
         /\ \E D \in SUBSET Wrappers(x) : y = Unwrapped(x, D)
         /\ Balanced(x) => Balanced(y)

\* the third block left an LF as it was, though F(F(args)) is in it: the
\* match went on to a later '))'
C28_WitnessRefused ==
  /\ Len(used) >= 2 /\ ~pass.exc /\ ~json.made
  /\ \E k \in DOMAIN pass.accepted :
       /\ Wrappers(BeforeThird(pass.accepted[k].seg)) # {}
       /\ Pattern(BeforeThird(pass.accepted[k].seg), 3) = BeforeThird(pass.accepted[k].seg)

\* the third block took the outer head off a term whose arguments hold
\* brackets
C28_Witness ==
  /\ Len(used) >= 2 /\ ~pass.exc /\ ~json.made
  /\ \E k \in DOMAIN pass.accepted :
       /\ Wrappers(BeforeThird(pass.accepted[k].seg)) # {}
       /\ Pattern(BeforeThird(pass.accepted[k].seg), 3) # BeforeThird(pass.accepted[k].seg)

(***************************************************************************)
(* parsing and logicalForm2JSON on utterances of four words with the      *)
(* function word `the` twice: the LF has two terms with the head the, or   *)
(* one inside the other.                                                   *)
(***************************************************************************)
MergeWordsIn == {"roger", "Southwest", "n578", "the", "uh", "5"}
MergeUtterances ==
  {<<"the", x, "the", y>> : x, y \in MergeWordsIn} \cup {<<"the", "the", x, y>> : x, y \in MergeWordsIn}

InitMerge == \E u \in MergeUtterances, n \in 1..MaxSteps : Entry(u, n)

SpecMerge == InitMerge /\ [][Next]_vars

\* the closing brace of the object that opens at p
ObjectEnd(J, p) ==
  Least({q \in (p + 1)..Len(J) : Opened(Slice(J, p, q), q - p + 1) = Closed(Slice(J, p, q), q - p + 1)})

\* the deepest nesting of braces in G
Depth(G) == IF G = << >> THEN 0 ELSE CHOOSE d \in 0..Len(G) : (\A q \in DOMAIN G : Opened(G, q) - Closed(G, q) <= d) /\ (d = 0 \/ \E q \in DOMAIN G : Opened(G, q) - Closed(G, q) = d)

\* "W": { body }, the key as the pattern of the fourth loop looks for it
\* (make_unique_keys has numbered it since), with a balanced body of at most
\* MaxNesting levels
UnmergedAt(J, p) ==
  /\ IsKey(J[p]) /\ \E w \in DOMAIN function_words : function_words[w] = J[p].v
  /\ (p = 1 \/ J[p - 1].k # "pre")
  /\ p < Len(J) /\ J[p + 1] = LB
  /\ ObjectEnd(J, p + 1) # 0
  /\ BracesOk(Slice(J, p + 2, ObjectEnd(J, p + 1) - 1))
  /\ Depth(Slice(J, p + 2, ObjectEnd(J, p + 1) - 1)) <= MaxNesting

\* C29: after logicalForm2JSON no key that is a function word of the list
\* alone (the, have, your, are, over, be, an) has a balanced object of
\* nesting depth <= 3 as its value: each was merged with the first key of
\* its body, also when the word occurs several times with different bodies.
C29_AllMerged ==
  json.made => \A p \in DOMAIN json.json : ~UnmergedAt(json.json, p)

\* the leaves of an LF: what stands between an opening '*' and the next '*'
StarsBefore(lf, p) == Cardinality({q \in 1..(p - 1) : lf[q] = STAR})
LeafSpans(lf) ==
  {ab \in (DOMAIN lf) \X (DOMAIN lf) :
     /\ ab[1] < ab[2] /\ lf[ab[1]] = STAR /\ lf[ab[2]] = STAR
     /\ StarsBefore(lf, ab[1]) % 2 = 0
     /\ StarsBefore(lf, ab[2]) = StarsBefore(lf, ab[1]) + 1}

\* the words cmd[s..s + n - 1] of the command, as the text of a leaf
IsSpanOf(leaf, cmd) ==
  \E s \in 1..Len(cmd) :
    /\ s + Len(leaf) - 1 <= Len(cmd)
    /\ \A q \in DOMAIN leaf : leaf[q] = W(cmd[s + q - 1])

\* C30: every *literal* leaf of the LF of stage 0 is a span of words of the
\* normalised utterance; no leaf is the identifier of a placeholder, also
\* when a category has more hits than its cap.
C30_LeavesAreSpans ==
  Len(lfs) >= 1 =>
    \A ab \in LeafSpans(lfs[1]) :
      /\ ab[2] > ab[1] + 1
      /\ IsSpanOf(Slice(lfs[1], ab[1] + 1, ab[2] - 1), command)

====
